---- MODULE Spec2Model ----
(***************************************************************************)
(* A model of the RFP/Proposal fine-tuning dataset generator:              *)
(*   src/services/geminiService.ts  (safeJsonParse, callOllama,            *)
(*       extractSectionsFromDocument, findMatchingSection)                 *)
(*   src/components/Loader.tsx      (readFileContent, textToPages, App:    *)
(*       handlePairChange, addPair, removePair, handleGenerateJsonl,       *)
(*       handleReset)                                                      *)
(*   src/types.ts                   (AppStep, DocumentPair)                *)
(*                                                                         *)
(* JavaScript strings are sequences of one-character strings, so that      *)
(* trim, substring, includes, the fence regexes and JSON.parse are         *)
(* computed character by character.                                        *)
(***************************************************************************)
EXTENDS Integers, Sequences, FiniteSets, TLC

(***************************************************************************)
(* Bounds of the model.                                                    *)
(***************************************************************************)
\* longest text handed to textToPages in PagerSpec
MaxTextLen == 4
\* largest chunkSize handed to textToPages in PagerSpec
MaxChunk == 3
\* longest free-form part of a model response handed to safeJsonParse in ParserSpec
MaxBodyLen == 3
\* most words in an error body handed to callOllama in OllamaSpec
MaxBodyWords == 2

(***************************************************************************)
(* JavaScript values.                                                      *)
(***************************************************************************)
\* null / undefined
Null == [some |-> FALSE]
Some(v) == [some |-> TRUE, val |-> v]

\* a completion of a call: a normal return or a thrown error
Return(v) == [kind |-> "return", value |-> v]
Throw(e) == [kind |-> "throw", error |-> e]

\* an Error object: its class and its message
Err(name, message) == [name |-> name, message |-> message]

(***************************************************************************)
(* String primitives.                                                      *)
(***************************************************************************)
\* the white space of String.prototype.trim and of \s that the model's alphabets hold
WhiteSpace == {" ", "\n", "\t", "\r"}

RECURSIVE TrimStart(_)
TrimStart(s) ==
    IF s # <<>> /\ Head(s) \in WhiteSpace THEN TrimStart(Tail(s)) ELSE s

RECURSIVE TrimEnd(_)
TrimEnd(s) ==
    IF s # <<>> /\ s[Len(s)] \in WhiteSpace
    THEN TrimEnd(SubSeq(s, 1, Len(s) - 1)) ELSE s

\* String.prototype.trim
Trim(s) == TrimEnd(TrimStart(s))

StartsWith(s, p) == Len(s) >= Len(p) /\ SubSeq(s, 1, Len(p)) = p

EndsWith(s, p) == Len(s) >= Len(p) /\ SubSeq(s, Len(s) - Len(p) + 1, Len(s)) = p

\* String.prototype.includes
Includes(s, sub) ==
    \E i \in 1..(Len(s) - Len(sub) + 1) : SubSeq(s, i, i + Len(sub) - 1) = sub

LowerCase == <<"a","b","c","d","e","f","g","h","i","j","k","l","m",
               "n","o","p","q","r","s","t","u","v","w","x","y","z">>
UpperCase == <<"A","B","C","D","E","F","G","H","I","J","K","L","M",
               "N","O","P","Q","R","S","T","U","V","W","X","Y","Z">>

\* String.prototype.toUpperCase
ToUpperCase(s) ==
    [i \in 1..Len(s) |->
        IF \E k \in 1..Len(LowerCase) : LowerCase[k] = s[i]
        THEN UpperCase[CHOOSE k \in 1..Len(LowerCase) : LowerCase[k] = s[i]]
        ELSE s[i]]

Min(a, b) == IF a < b THEN a ELSE b
Max(a, b) == IF a < b THEN b ELSE a

\* String.prototype.substring(start, end): 0-based, arguments clamped to
\* [0, length] and swapped when start > end
Substring(s, start, end) ==
    LET a == Max(0, Min(start, Len(s)))
        b == Max(0, Min(end, Len(s)))
    IN SubSeq(s, Min(a, b) + 1, Max(a, b))

\* Array.prototype.join
RECURSIVE Join(_, _)
Join(parts, sep) ==
    IF parts = <<>> THEN <<>>
    ELSE IF Len(parts) = 1 THEN parts[1]
    ELSE parts[1] \o sep \o Join(Tail(parts), sep)

\* the concatenation of a sequence of strings
RECURSIVE Concat(_)
Concat(parts) == IF parts = <<>> THEN <<>> ELSE Head(parts) \o Concat(Tail(parts))

\* all sequences over S of length at most n
SeqsUpTo(S, n) == UNION {[1..k -> S] : k \in 0..n}

(***************************************************************************)
(* Loader.tsx: textToPages                                                 *)
(***************************************************************************)
\* the for loop of textToPages from index i on
RECURSIVE textToPagesFrom(_, _, _)
textToPagesFrom(text, chunkSize, i) ==
    IF i < Len(text)
    THEN <<Substring(text, i, i + chunkSize)>>
             \o textToPagesFrom(text, chunkSize, i + chunkSize)
    ELSE <<>>

\* the loop stops as soon as no full page is left
textToPagesFullOnly(text, chunkSize) ==
    SelectSeq(textToPagesFrom(text, chunkSize, 0), LAMBDA page : Len(page) = chunkSize)

textToPages(text, chunkSize) == textToPagesFrom(text, chunkSize, 0)

PAGE_CHUNK_SIZE == 10000

(***************************************************************************)
(* geminiService.ts: JSON.parse, on texts without backslash escapes.       *)
(* Parsed values: [t |-> "array", v |-> <<values>>],                       *)
(* [t |-> "object", v |-> function from keys to values],                   *)
(* [t |-> "string", v |-> characters], [t |-> "number", v |-> lexeme],     *)
(* [t |-> "literal", v |-> lexeme].                                        *)
(***************************************************************************)
\* the white space of the JSON grammar
JsonWS == {" ", "\n", "\t", "\r"}
Digits == {"0","1","2","3","4","5","6","7","8","9"}
\* characters a JSON string may not hold unescaped (the control characters
\* of the model's alphabets), and the escape character
StringForbidden == {"\n", "\t", "\r", "\\"}

JArray(elems) == [t |-> "array", v |-> elems]
EmptyArray == JArray(<<>>)
JString(chars) == [t |-> "string", v |-> chars]

\* the character at 1-based position i, or "EOF" past the end
At(s, i) == IF i >= 1 /\ i <= Len(s) THEN s[i] ELSE "EOF"

RECURSIVE SkipWS(_, _)
SkipWS(s, i) == IF At(s, i) \in JsonWS THEN SkipWS(s, i + 1) ELSE i

RECURSIVE SkipDigits(_, _)
SkipDigits(s, i) == IF At(s, i) \in Digits THEN SkipDigits(s, i + 1) ELSE i

ParseFail == [ok |-> FALSE]
ParseOk(value, next) == [ok |-> TRUE, value |-> value, next |-> next]

\* -?(0|[1-9][0-9]*)(\.[0-9]+)?([eE][+-]?[0-9]+)? ; position 0 stands for failure
ParseNumber(s, i) ==
    LET i1 == IF At(s, i) = "-" THEN i + 1 ELSE i
        i2 == IF At(s, i1) = "0" THEN i1 + 1
              ELSE IF At(s, i1) \in Digits THEN SkipDigits(s, i1) ELSE 0
        i3 == IF i2 = 0 THEN 0
              ELSE IF At(s, i2) = "."
                   THEN (IF At(s, i2 + 1) \in Digits THEN SkipDigits(s, i2 + 1) ELSE 0)
                   ELSE i2
        e2 == IF At(s, i3 + 1) \in {"+", "-"} THEN i3 + 2 ELSE i3 + 1
        i4 == IF i3 = 0 THEN 0
              ELSE IF At(s, i3) \in {"e", "E"}
                   THEN (IF At(s, e2) \in Digits THEN SkipDigits(s, e2) ELSE 0)
                   ELSE i3
    IN IF i4 = 0 THEN ParseFail
       ELSE ParseOk([t |-> "number", v |-> SubSeq(s, i, i4 - 1)], i4)

\* the position of the closing quote of a string whose content starts at j, or 0
RECURSIVE ScanString(_, _)
ScanString(s, j) ==
    IF j > Len(s) THEN 0
    ELSE IF s[j] = "\"" THEN j
    ELSE IF s[j] \in StringForbidden THEN 0
    ELSE ScanString(s, j + 1)

ParseString(s, i) ==
    LET j == ScanString(s, i + 1)
    IN IF j = 0 THEN ParseFail ELSE ParseOk(JString(SubSeq(s, i + 1, j - 1)), j + 1)

ParseLiteral(s, i) ==
    LET has(w) == SubSeq(s, i, Min(Len(s), i + Len(w) - 1)) = w
    IN IF has(<<"t","r","u","e">>)
         THEN ParseOk([t |-> "literal", v |-> <<"t","r","u","e">>], i + 4)
       ELSE IF has(<<"f","a","l","s","e">>)
         THEN ParseOk([t |-> "literal", v |-> <<"f","a","l","s","e">>], i + 5)
       ELSE IF has(<<"n","u","l","l">>)
         THEN ParseOk([t |-> "literal", v |-> <<"n","u","l","l">>], i + 4)
       ELSE ParseFail

RECURSIVE ParseValue(_, _), ParseElements(_, _, _), ParseMembers(_, _, _)

\* a value, after optional white space, from position i0
ParseValue(s, i0) ==
    LET i == SkipWS(s, i0)
        c == At(s, i)
    IN IF c = "[" THEN
            (IF At(s, SkipWS(s, i + 1)) = "]"
             THEN ParseOk(EmptyArray, SkipWS(s, i + 1) + 1)
             ELSE ParseElements(s, i + 1, <<>>))
       ELSE IF c = "{" THEN
            (IF At(s, SkipWS(s, i + 1)) = "}"
             THEN ParseOk([t |-> "object", v |-> <<>>], SkipWS(s, i + 1) + 1)
             ELSE ParseMembers(s, i + 1, <<>>))
       ELSE IF c = "\"" THEN ParseString(s, i)
       ELSE IF c = "-" \/ c \in Digits THEN ParseNumber(s, i)
       ELSE ParseLiteral(s, i)

\* value (, value)* ] from position i, acc the elements parsed so far
ParseElements(s, i, acc) ==
    LET r == ParseValue(s, i)
        j == SkipWS(s, r.next)
    IN IF ~r.ok THEN ParseFail
       ELSE IF At(s, j) = "," THEN ParseElements(s, j + 1, Append(acc, r.value))
       ELSE IF At(s, j) = "]" THEN ParseOk(JArray(Append(acc, r.value)), j + 1)
       ELSE ParseFail

\* string : value (, string : value)* } from position i; a repeated key keeps
\* its last value
ParseMembers(s, i, acc) ==
    LET j == SkipWS(s, i)
        key == IF At(s, j) = "\"" THEN ParseString(s, j) ELSE ParseFail
        k == SkipWS(s, key.next)
        val == IF At(s, k) = ":" THEN ParseValue(s, k + 1) ELSE ParseFail
        m == SkipWS(s, val.next)
        acc2 == [x \in (DOMAIN acc) \cup {key.value.v} |->
                    IF x = key.value.v THEN val.value ELSE acc[x]]
    IN IF ~key.ok THEN ParseFail
       ELSE IF ~val.ok THEN ParseFail
       ELSE IF At(s, m) = "," THEN ParseMembers(s, m + 1, acc2)
       ELSE IF At(s, m) = "}" THEN ParseOk([t |-> "object", v |-> acc2], m + 1)
       ELSE ParseFail

SyntaxError == Err("SyntaxError", <<"U","n","e","x","p","e","c","t","e","d"," ","t","o","k","e","n">>)

\* JSON.parse: the value of the whole text, or a thrown SyntaxError
JSONparse(s) ==
    LET r == ParseValue(s, 1)
    IN IF r.ok /\ SkipWS(s, r.next) = Len(s) + 1
       THEN Return(r.value) ELSE Throw(SyntaxError)

\* Array.isArray
IsArray(value) == value.t = "array"

(***************************************************************************)
(* geminiService.ts: safeJsonParse                                         *)
(***************************************************************************)
\* the grave accent (backtick) character, which a TLA+ string cannot hold
Backtick == "BACKTICK"
FenceJson == <<Backtick, Backtick, Backtick, "j", "s", "o", "n">>
Fence == <<Backtick, Backtick, Backtick>>

\* s.replace(/^<fence>\s*/, '')
StripLeading(s, fence) ==
    IF StartsWith(s, fence) THEN TrimStart(SubSeq(s, Len(fence) + 1, Len(s))) ELSE s

\* s.replace(/\s*<fence>$/, '')
StripTrailing(s) ==
    IF EndsWith(s, Fence) THEN TrimEnd(SubSeq(s, 1, Len(s) - Len(Fence))) ELSE s

Sanitize(text) ==
    StripTrailing(StripLeading(StripLeading(Trim(text), FenceJson), Fence))

\* safeJsonParse without its try/catch
safeJsonParseUncaught(text) == JSONparse(Sanitize(text))

safeJsonParse(text) ==
    LET r == JSONparse(Sanitize(text))
    IN IF r.kind = "throw" THEN Return(EmptyArray) ELSE r

(***************************************************************************)
(* geminiService.ts: callOllama                                            *)
(*                                                                         *)
(* What the endpoint does with one request is a "fetch outcome":           *)
(*   [kind |-> "network"]               fetch rejects with a TypeError     *)
(*   [kind |-> "http", ok |-> FALSE, status |-> n, text |-> completion]    *)
(*        a non-success status; text is what response.text() yields        *)
(*   [kind |-> "http", ok |-> TRUE, status |-> n, json |-> completion]     *)
(*        a success status; json is what response.json() yields: a parsed  *)
(*        JSON value or a thrown SyntaxError                               *)
(***************************************************************************)
OLLAMA_API_URL ==
    <<"h","t","t","p",":","/","/","1","2","7",".","0",".","0",".","1",":","1","1","4","3",
    "4","/","a","p","i","/","g","e","n","e","r","a","t","e">>

OLLAMA_MODEL ==
    <<"g","p","t","-","o","s","s",":","2","0","b">>

ConnectionFailedHead ==
    <<"C","o","n","n","e","c","t","i","o","n"," ","F","a","i","l","e","d",":"," ","C","o",
    "u","l","d"," ","n","o","t"," ","r","e","a","c","h"," ","O","l","l","a","m","a"," ",
    "a","t"," ">>

ConnectionFailedCauses ==
    <<".","\n","\n","P","O","S","S","I","B","L","E"," ","C","A","U","S","E","S"," ","&"," ",
    "F","I","X","E","S",":","\n","1","."," ","O","l","l","a","m","a"," ","i","s"," ","n",
    "o","t"," ","r","u","n","n","i","n","g",".","\n"," "," "," ","-",">"," ","F","i","x",
    ":"," ","S","t","a","r","t"," ","O","l","l","a","m","a"," ","i","n"," ","y","o","u",
    "r"," ","t","e","r","m","i","n","a","l",".","\n","\n","2","."," ","C","O","R","S"," ",
    "i","s"," ","b","l","o","c","k","i","n","g"," ","t","h","e"," ","b","r","o","w","s",
    "e","r"," ","r","e","q","u","e","s","t",".","\n"," "," "," ","-",">"," ","F","i","x",
    ":"," ","R","u","n"," ","o","n","e"," ","o","f"," ","t","h","e","s","e"," ","c","o",
    "m","m","a","n","d","s"," ","t","o"," ","a","l","l","o","w"," ","b","r","o","w","s",
    "e","r"," ","a","c","c","e","s","s",":","\n","\n"," "," "," ","M","a","c","/","L","i",
    "n","u","x",":","\n"," "," "," ","O","L","L","A","M","A","_","O","R","I","G","I","N",
    "S","=","\"","*","\""," ","o","l","l","a","m","a"," ","s","e","r","v","e","\n","\n",
    " "," "," ","W","i","n","d","o","w","s"," ","(","P","o","w","e","r","S","h","e","l",
    "l",")",":","\n"," "," "," ","$","e","n","v",":","O","L","L","A","M","A","_","O","R",
    "I","G","I","N","S","=","\"","*","\"",";"," ","o","l","l","a","m","a"," ","s","e","r",
    "v","e","\n","\n"," "," "," ","W","i","n","d","o","w","s"," ","(","C","o","m","m","a",
    "n","d"," ","P","r","o","m","p","t",")",":","\n"," "," "," ","s","e","t"," ","O","L",
    "L","A","M","A","_","O","R","I","G","I","N","S","=","*"," ","&","&"," ","o","l","l",
    "a","m","a"," ","s","e","r","v","e","\n","\n","3","."," ","T","h","e"," ","m","o","d",
    "e","l"," ","'">>

ConnectionFailedNotPulled ==
    <<"'"," ","i","s"," ","n","o","t"," ","p","u","l","l","e","d",".","\n"," "," "," ","-",
    ">"," ","F","i","x",":"," ","R","u","n",":"," ","o","l","l","a","m","a"," ","p","u",
    "l","l"," ">>

ApiErrorHead ==
    <<"O","l","l","a","m","a"," ","A","P","I"," ","E","r","r","o","r"," ","(">>

ApiErrorMid ==
    <<")",":"," ">>

InvalidResponseFormat ==
    <<"I","n","v","a","l","i","d"," ","r","e","s","p","o","n","s","e"," ","f","o","r","m",
    "a","t"," ","f","r","o","m"," ","O","l","l","a","m","a">>

FailedToConnect ==
    <<"F","a","i","l","e","d"," ","t","o"," ","c","o","n","n","e","c","t"," ","t","o"," ",
    "O","l","l","a","m","a",":"," ">>

FetchWord ==
    <<"f","e","t","c","h">>

NetworkWord ==
    <<"N","e","t","w","o","r","k">>

FailedToFetch ==
    <<"F","a","i","l","e","d"," ","t","o"," ","f","e","t","c","h">>

ResponseKey ==
    <<"r","e","s","p","o","n","s","e">>

DigitChars == <<"0","1","2","3","4","5","6","7","8","9">>

\* the decimal text of a natural number, as a template literal prints it
RECURSIVE NumberToString(_)
NumberToString(n) ==
    IF n < 10 THEN <<DigitChars[n + 1]>>
    ELSE NumberToString(n \div 10) \o <<DigitChars[(n % 10) + 1]>>

\* the message of the OllamaConnectionError thrown at lines 73-88
ConnectionFailedMessage ==
    ConnectionFailedHead \o OLLAMA_API_URL \o ConnectionFailedCauses
        \o OLLAMA_MODEL \o ConnectionFailedNotPulled \o OLLAMA_MODEL

OllamaConnectionError(message) == Err("OllamaConnectionError", message)

\* `Ollama API Error (${response.status}): ${errorText}`
ApiErrorMessage(status, errorText) ==
    ApiErrorHead \o NumberToString(status) \o ApiErrorMid \o errorText

\* !data : null, false, 0 and "" are falsy
IsFalsy(data) ==
    \/ data.t = "literal" /\ data.v \in {<<"n","u","l","l">>, <<"f","a","l","s","e">>}
    \/ data.t = "number" /\ \A i \in 1..Len(data.v) : data.v[i] \in {"0", "-", "."}
    \/ data.t = "string" /\ data.v = <<>>

\* typeof data.response === 'string'
HasStringResponse(data) ==
    /\ data.t = "object"
    /\ ResponseKey \in DOMAIN data.v
    /\ data.v[ResponseKey].t = "string"

\* lines 33-60: the completion of the try block
callOllamaTry(outcome) ==
    IF outcome.kind = "network" THEN Throw(Err("TypeError", FailedToFetch))
    ELSE IF ~outcome.ok THEN
        (IF outcome.text.kind = "throw" THEN outcome.text
         ELSE Throw(Err("Error", ApiErrorMessage(outcome.status, outcome.text.value))))
    ELSE IF outcome.json.kind = "throw" THEN outcome.json
    ELSE IF IsFalsy(outcome.json.value) \/ ~HasStringResponse(outcome.json.value)
        THEN Throw(Err("Error", InvalidResponseFormat))
    ELSE Return(outcome.json.value.v[ResponseKey].v)

\* lines 69-70: every thrown value here is an instance of Error
isNetworkError(error) ==
    \/ error.name = "TypeError"
    \/ Includes(error.message, FetchWord)
    \/ Includes(error.message, NetworkWord)

\* every failure is reported as a connection failure
callOllamaCatchAll(error) == Throw(OllamaConnectionError(ConnectionFailedMessage))

\* lines 61-94: the catch block
callOllamaCatch(error) ==
    IF error.name = "OllamaConnectionError" THEN Throw(error)
    ELSE IF isNetworkError(error)
        THEN Throw(OllamaConnectionError(ConnectionFailedMessage))
    ELSE Throw(Err("Error", FailedToConnect \o error.message))

\* callOllama(prompt, jsonMode), given what the endpoint does with the request
callOllama(outcome) ==
    LET c == callOllamaTry(outcome)
    IN IF c.kind = "throw" THEN callOllamaCatch(c.error) ELSE c

\* error instanceof OllamaConnectionError
IsOllamaConnectionError(error) == error.name = "OllamaConnectionError"

(***************************************************************************)
(* Loader.tsx: fixed texts                                                 *)
(***************************************************************************)
PleaseProvideMessage == <<"P","l","e","a","s","e"," ","p","r","o","v","i","d","e"," ","a","t"," ","l","e","a","s","t"," ","o","n","e"," ","c","o","m","p","l","e","t","e"," ","R","F","P"," ","a","n","d"," ","P","r","o","p","o","s","a","l"," ","p","a","i","r",".">>
NoValidSectionsMessage == <<"T","h","e"," ","A","I"," ","m","o","d","e","l"," ","c","o","u","l","d"," ","n","o","t"," ","e","x","t","r","a","c","t"," ","a","n","y"," ","v","a","l","i","d"," ","s","e","c","t","i","o","n","s"," ","f","r","o","m"," ","y","o","u","r"," ","d","o","c","u","m","e","n","t","s","."," ","P","l","e","a","s","e"," ","c","h","e","c","k"," ","t","h","e"," ","d","o","c","u","m","e","n","t"," ","c","o","n","t","e","n","t"," ","a","n","d"," ","t","r","y"," ","a","g","a","i","n",".">>
UnknownErrorMessage == <<"A","n"," ","u","n","k","n","o","w","n"," ","e","r","r","o","r"," ","o","c","c","u","r","r","e","d"," ","d","u","r","i","n","g"," ","f","i","l","e"," ","p","r","o","c","e","s","s","i","n","g",".">>
FileNotReadMessage == <<"F","i","l","e"," ","c","o","u","l","d"," ","n","o","t"," ","b","e"," ","r","e","a","d",".">>
UnsupportedFileType == <<"U","n","s","u","p","p","o","r","t","e","d"," ","f","i","l","e"," ","t","y","p","e",".">>
RfpFileHead == <<"-","-","-"," ","R","F","P"," ","F","i","l","e",":"," ">>
RfpFileTail == <<" ","-","-","-","\n">>
RfpFileSeparator == <<"\n","\n">>
PageSeparator == <<"\n","\n","-","-","-","\n","\n">>
UserContentHead == <<"W","r","i","t","e"," ","a"," ","p","r","o","p","o","s","a","l"," ","s","e","c","t","i","o","n"," ","b","a","s","e","d"," ","o","n"," ","t","h","i","s"," ","R","F","P"," ","s","e","c","t","i","o","n",":","\n","\n">>
DatasetFileName == <<"f","i","n","e","t","u","n","e","_","d","a","t","a","s","e","t",".","j","s","o","n","l">>
YesWord == <<"Y","E","S">>
BlankFileName == <<"a",".","t","x","t">>
BigFileName == <<"b",".","t","x","t">>
TxtExtension == <<"t","x","t">>
MdExtension == <<"m","d">>

(***************************************************************************)
(* Loader.tsx: readFileContent.  A File is a handle [name |-> characters]; *)
(* what the disk holds for it is RawText.  The files of the model are text *)
(* files; the HTML, Word and PDF decoders are external libraries.          *)
(***************************************************************************)
\* most pairs of the upload list
MaxPairs == 2

File(name) == [name |-> name]
BlankFile == File(BlankFileName)
BigFile == File(BigFileName)
Files == {BlankFile, BigFile}

\* one character more than a page holds
BigLen == PAGE_CHUNK_SIZE + 1

\* what FileReader.readAsText yields for a file
RawText(file) ==
    IF file.name = BigFileName THEN [i \in 1..BigLen |-> "x"] ELSE <<" ">>

\* file.name.split('.').pop()?.toLowerCase(), for the lower-case names of the model
RECURSIVE Extension(_)
Extension(name) ==
    IF \E i \in 1..Len(name) : name[i] = "." THEN Extension(Tail(name)) ELSE name

\* lines 98-145: reader.onload
readerOnLoad(file) ==
    LET result == RawText(file)
        content == IF Extension(file.name) \in {TxtExtension, MdExtension}
                   THEN result ELSE UnsupportedFileType
    IN IF result = <<>> THEN Throw(Err("Error", FileNotReadMessage))
       ELSE Return([name |-> file.name, content |-> Trim(content)])

\* line 147: reader.onerror rejects with the event, which is no Error
ReaderErrorEvent == Err("ProgressEvent", <<>>)

\* the completions readFileContent(file) can have; a null file (pair.proposal!
\* of a pair without proposal) throws a TypeError at file.name
readFileContent(file) ==
    IF ~file.some THEN {Throw(Err("TypeError", <<>>))}
    ELSE {readerOnLoad(file.val), Throw(ReaderErrorEvent)}

\* e instanceof Error
InstanceOfError(e) == e.name # "ProgressEvent"

\* line 225: rfpContents.map(c => `--- RFP File: ${c.name} ---\n${c.content}`).join('\n\n')
combinedRfpContent(rfpContents) ==
    Join([i \in 1..Len(rfpContents) |->
             RfpFileHead \o rfpContents[i].name \o RfpFileTail \o rfpContents[i].content],
         RfpFileSeparator)

\* A page is held as its position in its document and its length, in place
\* of its (up to PAGE_CHUNK_SIZE) characters.
PageRefs(pages) == [i \in 1..Len(pages) |-> [no |-> i, len |-> Len(pages[i])]]

(***************************************************************************)
(* The endpoint: what it can do with one request of the run.               *)
(***************************************************************************)
JObject(key, value) == [t |-> "object", v |-> [k \in {key} |-> value]]

\* a success status whose payload is {"response": text}
Reply(text) ==
    [kind |-> "http", ok |-> TRUE, status |-> 200,
     json |-> Return(JObject(ResponseKey, JString(text)))]

\* a success status whose payload has no response field
ReplyWithoutResponse ==
    [kind |-> "http", ok |-> TRUE, status |-> 200,
     json |-> Return(JObject(<<"e","r","r","o","r">>, JString(<<"x">>)))]

HttpError(status, text) ==
    [kind |-> "http", ok |-> FALSE, status |-> status, text |-> Return(text)]

NetworkFailure == [kind |-> "network"]

\* the failures of a request of the run
FailureOutcomes ==
    { NetworkFailure,
      HttpError(500, <<"b","u","s","y">>),
      HttpError(404, <<"p","r","e","f","e","t","c","h">>),
      ReplyWithoutResponse }

\* responses to the section prompt (JSON mode)
SectionResponses ==
    { <<"[","\"","a","\"","]">>,
      <<Backtick,Backtick,Backtick,"j","s","o","n","\n",
        "[","\"","b","\"","]","\n",Backtick,Backtick,Backtick>>,
      <<"{","\"","a","\"",":","1","}">>,
      <<"o","o","p","s">> }

\* responses to the relevance prompt
RelevanceResponses ==
    { <<"Y","E","S">>, <<" ","y","e","s",".","\n">>, <<"N","O">>,
      <<"y","e","s","t","e","r","d","a","y",":"," ","n","o">> }

\* responses to the extraction prompt
ExtractionResponses ==
    { <<" ","w","e"," ","d","o","\n">>, <<" ","\n">>, <<>> }

Outcomes(responses) == FailureOutcomes \cup {Reply(r) : r \in responses}

(***************************************************************************)
(* State.                                                                  *)
(***************************************************************************)
VARIABLES
    \* App: React state (lines 177-183)
    step, documentPairs, isLoading, loadingMessage, error, downloadUrl,
    generatedEntries,
    \* the browser: the content behind the object URL, and the downloads
    \* triggered for it
    blob, downloads,
    \* handleGenerateJsonl: where the handler is suspended, and its locals
    pc, index, rfpPages, proposalPages, rfpSections, sectionIndex, allFinalChunks,
    \* extractSectionsFromDocument: the page whose request is outstanding, and
    \* the sections so far
    pageIndex, allSections,
    \* findMatchingSection: the page whose request is outstanding, and the
    \* relevant pages so far
    matchIndex, relevantPages,
    \* the completion of the awaited callee, and the requests outstanding at
    \* the endpoint
    result, inflight,
    \* pure functions under PagerSpec, ParserSpec and OllamaSpec: the
    \* arguments and the completion of the call
    input, output,
    \* history of the run: the completion of the last callOllama, the number
    \* of requests (of the run, of the current extractSectionsFromDocument,
    \* of the current findMatchingSection), the pairs touched, the sections
    \* extracted per pair, the match found per section
    lastCall, calls, touched, extractLog, matchLog

uiVars == <<step, documentPairs, isLoading, loadingMessage, error, downloadUrl,
            generatedEntries>>
envVars == <<blob, downloads>>
runVars == <<pc, index, rfpPages, proposalPages, rfpSections, sectionIndex,
             allFinalChunks, pageIndex, allSections, matchIndex, relevantPages,
             result, inflight>>
fnVars == <<input, output>>
histVars == <<lastCall, calls, touched, extractLog, matchLog>>
vars == <<uiVars, envVars, runVars, fnVars, histVars>>

Upload == "UPLOAD"
Download == "DOWNLOAD"

\* a loading message: its template and the numbers put into it
Message(template, args) == [template |-> template, args |-> args]
NoMessage == Message("", <<>>)

NoCalls == [run |-> 0, extract |-> 0, match |-> 0]
NoTouched == [read |-> {}, called |-> {}, recorded |-> {}]
NoValue == [kind |-> "none"]

\* the object URL of the one Blob alive at a time
BlobUrl == "blob:1"

\* line 178, 201: { id: Date.now(), rfp: [], proposal: null }
EmptyPair(id) == [id |-> id, rfp |-> <<>>, proposal |-> Null]

\* Date.now(): ids are only ever compared for equality, so a new id is the
\* least number that no pair of the list carries
DateNow(pairs) ==
    CHOOSE n \in 1..(Len(pairs) + 1) :
        /\ \A i \in 1..Len(pairs) : pairs[i].id # n
        /\ \A m \in 1..(n - 1) : \E i \in 1..Len(pairs) : pairs[i].id = m

\* the proposal is not looked at
IsCompletePairRfpOnly(p) == Len(p.rfp) > 0

\* line 185: p.rfp.length > 0 && p.proposal
IsCompletePair(p) == Len(p.rfp) > 0 /\ p.proposal.some

\* line 185: completedPairs
completedPairs == SelectSeq(documentPairs, IsCompletePair)

\* the handler's locals when it is not running
IdleRun ==
    /\ pc' = "idle"
    /\ index' = 0
    /\ rfpPages' = <<>>
    /\ proposalPages' = <<>>
    /\ rfpSections' = <<>>
    /\ sectionIndex' = 0
    /\ allFinalChunks' = <<>>
    /\ pageIndex' = 0
    /\ allSections' = <<>>
    /\ matchIndex' = 0
    /\ relevantPages' = <<>>
    /\ result' = NoValue
    /\ inflight' = <<>>

\* lines 177-183: the state of a freshly mounted App, no run in progress
AppInit ==
    /\ step = Upload
    /\ documentPairs = <<EmptyPair(1)>>
    /\ isLoading = FALSE
    /\ loadingMessage = NoMessage
    /\ error = Null
    /\ downloadUrl = Null
    /\ generatedEntries = 0
    /\ blob = Null
    /\ downloads = 0
    /\ pc = "idle"
    /\ index = 0
    /\ rfpPages = <<>>
    /\ proposalPages = <<>>
    /\ rfpSections = <<>>
    /\ sectionIndex = 0
    /\ allFinalChunks = <<>>
    /\ pageIndex = 0
    /\ allSections = <<>>
    /\ matchIndex = 0
    /\ relevantPages = <<>>
    /\ result = NoValue
    /\ inflight = <<>>
    /\ lastCall = NoValue
    /\ calls = NoCalls
    /\ touched = NoTouched
    /\ extractLog = <<>>
    /\ matchLog = <<>>

Init ==
    /\ AppInit
    /\ input = NoValue
    /\ output = NoValue

(***************************************************************************)
(* Loader.tsx: the upload list (lines 187-206)                             *)
(***************************************************************************)
\* most files of one RFP selection
MaxRfpFiles == 1

\* what a file input delivers: null or a FileList
FileLists == {Null} \cup {Some(fs) : fs \in SeqsUpTo(Files, MaxRfpFiles)}

\* the upload screen is rendered and its controls can be used (lines 331-337)
UploadScreen == step = Upload /\ ~isLoading

\* the new value of pair p in handlePairChange
changedPair(p, id, type, files) ==
    IF p.id = id
    THEN IF type = "rfp"
         THEN [p EXCEPT !.rfp = IF files.some THEN files.val ELSE <<>>]
         ELSE [p EXCEPT !.proposal =
                  IF files.some /\ files.val # <<>> THEN Some(files.val[1]) ELSE Null]
    ELSE p

handlePairChange(id, type, files) ==
    /\ UploadScreen
    /\ \E i \in 1..Len(documentPairs) : documentPairs[i].id = id
    /\ documentPairs' =
           [i \in 1..Len(documentPairs) |-> changedPair(documentPairs[i], id, type, files)]
    /\ UNCHANGED <<step, isLoading, loadingMessage, error, downloadUrl, generatedEntries>>
    /\ UNCHANGED <<envVars, runVars, fnVars, histVars>>

addPair ==
    /\ UploadScreen
    /\ Len(documentPairs) < MaxPairs
    /\ documentPairs' = Append(documentPairs, EmptyPair(DateNow(documentPairs)))
    /\ UNCHANGED <<step, isLoading, loadingMessage, error, downloadUrl, generatedEntries>>
    /\ UNCHANGED <<envVars, runVars, fnVars, histVars>>

\* the button is disabled for a list of one pair (line 349)
removePair(id) ==
    /\ UploadScreen
    /\ Len(documentPairs) > 1
    /\ \E i \in 1..Len(documentPairs) : documentPairs[i].id = id
    /\ documentPairs' = SelectSeq(documentPairs, LAMBDA p : p.id # id)
    /\ UNCHANGED <<step, isLoading, loadingMessage, error, downloadUrl, generatedEntries>>
    /\ UNCHANGED <<envVars, runVars, fnVars, histVars>>

\* the reset leaves the entry count as it is
handleResetKeepsCount ==
    /\ step = Download /\ ~isLoading
    /\ step' = Upload
    /\ documentPairs' = <<EmptyPair(DateNow(<<>>))>>
    /\ error' = Null
    /\ isLoading' = FALSE
    /\ UNCHANGED generatedEntries
    /\ IF downloadUrl.some
       THEN blob' = Null /\ downloads' = 0 /\ downloadUrl' = Null
       ELSE UNCHANGED <<blob, downloads, downloadUrl>>
    /\ UNCHANGED loadingMessage
    /\ UNCHANGED <<runVars, fnVars>>
    /\ lastCall' = NoValue /\ calls' = NoCalls /\ touched' = NoTouched
    /\ extractLog' = <<>> /\ matchLog' = <<>>

\* lines 286-296; the button is rendered on the download screen (line 393)
handleReset ==
    /\ step = Download /\ ~isLoading
    /\ step' = Upload
    /\ documentPairs' = <<EmptyPair(DateNow(<<>>))>>
    /\ error' = Null
    /\ isLoading' = FALSE
    /\ generatedEntries' = 0
    /\ IF downloadUrl.some
       THEN blob' = Null /\ downloads' = 0 /\ downloadUrl' = Null
       ELSE UNCHANGED <<blob, downloads, downloadUrl>>
    /\ UNCHANGED loadingMessage
    /\ UNCHANGED <<runVars, fnVars>>
    /\ lastCall' = NoValue /\ calls' = NoCalls /\ touched' = NoTouched
    /\ extractLog' = <<>> /\ matchLog' = <<>>

\* most uses of "Download Again" for one dataset
MaxDownloads == 2

\* line 386: downloadUrl && triggerDownload(downloadUrl, 'finetune_dataset.jsonl')
downloadAgain ==
    /\ step = Download /\ ~isLoading
    /\ downloadUrl.some
    /\ downloads < MaxDownloads
    /\ downloads' = downloads + 1
    /\ UNCHANGED <<uiVars, blob, runVars, fnVars, histVars>>

(***************************************************************************)
(* Loader.tsx: handleGenerateJsonl (lines 208-284), from one await to the  *)
(* next.  pc is the await the handler is suspended at:                     *)
(*   "readRfp"        line 222, Promise.all of the RFP reads               *)
(*   "readProposal"   line 227                                             *)
(*   "extractCall"    geminiService.ts line 120, inside line 236           *)
(*   "extractDone"    line 236, the callee has settled                     *)
(*   "relevanceCall"  geminiService.ts line 160, inside line 245           *)
(*   "extractionCall" geminiService.ts line 196, inside line 245           *)
(*   "matchDone"      line 245, the callee has settled                     *)
(***************************************************************************)
\* the request of a callOllama(prompt, jsonMode)
Request(prompt, jsonMode) == [prompt |-> prompt, jsonMode |-> jsonMode]

SectionPrompt(page) == [ask |-> "sections", page |-> page]
RelevancePrompt(section, page) == [ask |-> "relevance", section |-> section, page |-> page]
\* the whole proposal is put in the extraction prompt
ExtractionPromptAllPages(section, pages) ==
    [ask |-> "extraction", section |-> section, pages |-> proposalPages,
     separator |-> PageSeparator]

\* line 178: relevantPages.join('\n\n---\n\n')
ExtractionPrompt(section, pages) ==
    [ask |-> "extraction", section |-> section, pages |-> pages, separator |-> PageSeparator]

\* the pair being processed
CurrentPair == completedPairs[index]

\* lines 260-268: one dataset line per chunk (the entry that JSON.stringify
\* writes); the sections of the model are strings
jsonlContent(chunks) ==
    [i \in 1..Len(chunks) |->
        [messages |->
            << [role |-> "user", content |-> UserContentHead \o chunks[i].rfp_section.v],
               [role |-> "assistant", content |-> chunks[i].proposal_section] >>]]

\* the catch block without the finally block
catchOnly(e) ==
    /\ error' = Some(IF InstanceOfError(e) THEN e.message ELSE UnknownErrorMessage)
    /\ IdleRun
    /\ UNCHANGED <<step, documentPairs, isLoading, loadingMessage, downloadUrl,
                   generatedEntries, envVars>>
    /\ lastCall' = NoValue /\ calls' = NoCalls /\ touched' = NoTouched
    /\ extractLog' = <<>> /\ matchLog' = <<>>

\* the records made before the error are written out as a dataset
catchSavesPartial(e) ==
    /\ error' = Some(IF InstanceOfError(e) THEN e.message ELSE UnknownErrorMessage)
    /\ isLoading' = FALSE
    /\ loadingMessage' = NoMessage
    /\ IdleRun
    /\ UNCHANGED <<step, documentPairs>>
    /\ IF allFinalChunks = <<>>
       THEN UNCHANGED <<downloadUrl, generatedEntries, envVars>>
       ELSE /\ blob' = Some(jsonlContent(allFinalChunks))
            /\ downloadUrl' = Some(BlobUrl)
            /\ generatedEntries' = Len(allFinalChunks)
            /\ downloads' = 1
    /\ lastCall' = NoValue /\ calls' = NoCalls /\ touched' = NoTouched
    /\ extractLog' = <<>> /\ matchLog' = <<>>

\* lines 277-283: catch (e), then finally
catchFinally(e) ==
    /\ error' = Some(IF InstanceOfError(e) THEN e.message ELSE UnknownErrorMessage)
    /\ isLoading' = FALSE
    /\ loadingMessage' = NoMessage
    /\ IdleRun
    /\ UNCHANGED <<step, documentPairs, downloadUrl, generatedEntries, envVars>>
    /\ lastCall' = NoValue /\ calls' = NoCalls /\ touched' = NoTouched
    /\ extractLog' = <<>> /\ matchLog' = <<>>

\* the dataset is made whatever the number of records
finishRunAlways(chunks, elog, mlog, t) ==
    /\ IdleRun
    /\ isLoading' = FALSE
    /\ loadingMessage' = NoMessage
    /\ lastCall' = NoValue
    /\ UNCHANGED documentPairs
    /\ blob' = Some(jsonlContent(chunks))
    /\ downloadUrl' = Some(BlobUrl)
    /\ generatedEntries' = Len(jsonlContent(chunks))
    /\ downloads' = 1
    /\ step' = Download
    /\ UNCHANGED <<error, calls>>
    /\ touched' = t
    /\ extractLog' = elog /\ matchLog' = mlog

\* lines 254-283: after the loop over the pairs; the finally block runs on
\* the early return of line 257 too
finishRun(chunks, elog, mlog, t) ==
    /\ IdleRun
    /\ isLoading' = FALSE
    /\ loadingMessage' = NoMessage
    /\ lastCall' = NoValue
    /\ UNCHANGED documentPairs
    /\ IF Len(chunks) = 0
       THEN /\ error' = Some(NoValidSectionsMessage)
            /\ UNCHANGED <<step, downloadUrl, generatedEntries, envVars>>
            /\ calls' = NoCalls /\ touched' = NoTouched
            /\ extractLog' = <<>> /\ matchLog' = <<>>
       ELSE /\ blob' = Some(jsonlContent(chunks))
            /\ downloadUrl' = Some(BlobUrl)
            /\ generatedEntries' = Len(jsonlContent(chunks))
            /\ downloads' = 1
            /\ step' = Download
            /\ UNCHANGED <<error, calls>>
            /\ touched' = t
            /\ extractLog' = elog /\ matchLog' = mlog

\* lines 219-224: the loop reaches pair i and starts the reads of its RFP files
startPair(i, t) ==
    /\ pc' = "readRfp"
    /\ index' = i
    /\ loadingMessage' = Message("Processing pair %1 of %2: Reading files...",
                                 <<i, Len(completedPairs)>>)
    /\ touched' = [t EXCEPT !.read = @ \cup {completedPairs[i].id}]
    /\ rfpPages' = <<>>
    /\ proposalPages' = <<>>
    /\ rfpSections' = <<>>
    /\ sectionIndex' = 0
    /\ pageIndex' = 0
    /\ allSections' = <<>>
    /\ matchIndex' = 0
    /\ relevantPages' = <<>>
    /\ result' = NoValue
    /\ inflight' = <<>>

\* the loop over the pairs takes the same pair again
samePairAgain(chunks, elog, mlog, t) ==
    IF index < Len(completedPairs)
    THEN /\ startPair(index, t)
         /\ allFinalChunks' = chunks
         /\ extractLog' = elog /\ matchLog' = mlog
         /\ lastCall' = NoValue
         /\ calls' = [calls EXCEPT !.extract = 0, !.match = 0]
         /\ UNCHANGED <<step, documentPairs, isLoading, error, downloadUrl,
                        generatedEntries, envVars>>
    ELSE finishRun(chunks, elog, mlog, t)

\* the end of the body of the loop over the pairs
nextPair(chunks, elog, mlog, t) ==
    IF index < Len(completedPairs)
    THEN /\ startPair(index + 1, t)
         /\ allFinalChunks' = chunks
         /\ extractLog' = elog /\ matchLog' = mlog
         /\ lastCall' = NoValue
         /\ calls' = [calls EXCEPT !.extract = 0, !.match = 0]
         /\ UNCHANGED <<step, documentPairs, isLoading, error, downloadUrl,
                        generatedEntries, envVars>>
    ELSE finishRun(chunks, elog, mlog, t)

\* lines 208-224; the handler keeps its own guard beside the button's
\* disabled attribute (line 369)
handleGenerateJsonl ==
    /\ UploadScreen
    /\ pc = "idle"
    /\ IF Len(completedPairs) = 0
       THEN /\ error' = Some(PleaseProvideMessage)
            /\ UNCHANGED <<step, documentPairs, isLoading, loadingMessage,
                           downloadUrl, generatedEntries>>
            /\ UNCHANGED <<envVars, runVars, fnVars, histVars>>
       ELSE /\ error' = Null
            /\ isLoading' = TRUE
            /\ allFinalChunks' = <<>>
            /\ startPair(1, NoTouched)
            /\ lastCall' = NoValue /\ calls' = NoCalls
            /\ extractLog' = <<>> /\ matchLog' = <<>>
            /\ UNCHANGED <<step, documentPairs, downloadUrl, generatedEntries>>
            /\ UNCHANGED <<envVars, fnVars>>

\* the request that settled last: what was asked, what the endpoint did and
\* what callOllama made of it
Settled(outcome) ==
    [kind |-> "settled", request |-> Head(inflight), outcome |-> outcome,
     completion |-> callOllama(outcome)]

\* a request goes out for the current pair
issued(t) == [t EXCEPT !.called = @ \cup {CurrentPair.id}]

\* the requests for all the pages are sent at once
callExtractSectionsFanOut(pages) ==
    /\ allSections' = <<>>
    /\ IF pages = <<>>
       THEN /\ pc' = "extractDone"
            /\ result' = Return(<<>>)
            /\ pageIndex' = 0
            /\ inflight' = <<>>
            /\ calls' = [calls EXCEPT !.extract = 0]
            /\ UNCHANGED touched
       ELSE /\ pc' = "extractCall"
            /\ result' = NoValue
            /\ pageIndex' = 1
            /\ inflight' = [k \in 1..Len(pages) |-> Request(SectionPrompt(pages[k]), TRUE)]
            /\ calls' = [calls EXCEPT !.run = @ + Len(pages), !.extract = Len(pages)]
            /\ touched' = issued(touched)

\* line 236 with geminiService.ts lines 103-120: extractSectionsFromDocument
\* is called and runs to its first await
callExtractSections(pages) ==
    /\ allSections' = <<>>
    /\ IF pages = <<>>
       THEN /\ pc' = "extractDone"
            /\ result' = Return(<<>>)
            /\ pageIndex' = 0
            /\ inflight' = <<>>
            /\ calls' = [calls EXCEPT !.extract = 0]
            /\ UNCHANGED touched
       ELSE /\ pc' = "extractCall"
            /\ result' = NoValue
            /\ pageIndex' = 1
            /\ inflight' = <<Request(SectionPrompt(pages[1]), TRUE)>>
            /\ calls' = [calls EXCEPT !.run = @ + 1, !.extract = 1]
            /\ touched' = issued(touched)

\* lines 222-224 settle: Promise.all of the RFP reads; on success line 227
\* starts the read of the proposal
rfpFilesRead(settled) ==
    /\ pc = "readRfp"
    /\ Len(settled) = Len(CurrentPair.rfp)
    /\ \A i \in 1..Len(settled) : settled[i] \in readFileContent(Some(CurrentPair.rfp[i]))
    /\ IF \E i \in 1..Len(settled) : settled[i].kind = "throw"
       THEN /\ \E i \in 1..Len(settled) :
                   settled[i].kind = "throw" /\ catchFinally(settled[i].error)
       ELSE /\ pc' = "readProposal"
            /\ UNCHANGED <<index, rfpPages, proposalPages, rfpSections, sectionIndex,
                           allFinalChunks, pageIndex, allSections, matchIndex,
                           relevantPages, result, inflight>>
            /\ UNCHANGED <<uiVars, envVars, histVars>>
    /\ UNCHANGED fnVars

\* the contents the RFP reads of the current pair resolved to
rfpContents == [i \in 1..Len(CurrentPair.rfp) |-> readerOnLoad(CurrentPair.rfp[i]).value]

\* line 227 settles; lines 230-236 up to the first await of the callee
proposalRead(settled) ==
    /\ pc = "readProposal"
    /\ settled \in readFileContent(CurrentPair.proposal)
    /\ IF settled.kind = "throw"
       THEN catchFinally(settled.error)
       ELSE /\ rfpPages' = PageRefs(textToPages(combinedRfpContent(rfpContents),
                                                PAGE_CHUNK_SIZE))
            /\ proposalPages' = PageRefs(textToPages(settled.value.content,
                                                     PAGE_CHUNK_SIZE))
            /\ loadingMessage' = Message("Processing pair %1: Extracting requirements from RFP...",
                                         <<index>>)
            /\ callExtractSections(rfpPages')
            /\ UNCHANGED <<step, documentPairs, isLoading, error, downloadUrl,
                           generatedEntries, envVars>>
            /\ UNCHANGED <<index, rfpSections, sectionIndex, allFinalChunks,
                           matchIndex, relevantPages>>
            /\ UNCHANGED <<lastCall, extractLog, matchLog>>
    /\ UNCHANGED fnVars

(***************************************************************************)
(* geminiService.ts: extractSectionsFromDocument (lines 103-136)           *)
(***************************************************************************)
\* the catch of the page loop swallows every error
extractRethrowsNothing(e) == FALSE

\* lines 126-131: the catch of the page loop rethrows connection errors only
extractRethrows(e) == IsOllamaConnectionError(e)

\* a page that is not the first adds nothing to the sections found
extractTryFirstOnly(sections, parsed) ==
    IF parsed.kind = "throw" THEN parsed
    ELSE IF IsArray(parsed.value) /\ sections = <<>> THEN Return(parsed.value.v)
    ELSE Return(sections)

\* lines 121-125: the try block after the await, given what safeJsonParse
\* completed with
extractTry(sections, parsed) ==
    IF parsed.kind = "throw" THEN parsed
    ELSE IF IsArray(parsed.value) THEN Return(sections \o parsed.value.v)
    ELSE Return(sections)

\* lines 126-132: the catch block, given what the try block completed with
extractCatch(sections, tried) ==
    IF tried.kind = "return" THEN tried
    ELSE IF extractRethrows(tried.error) THEN tried
    ELSE Return(sections)

\* lines 118-132: one pass of the page loop, given the completion c of
\* callOllama: the sections after the pass, or the error thrown out of the loop
extractPage(sections, c) ==
    extractCatch(sections,
                 IF c.kind = "return" THEN extractTry(sections, safeJsonParse(c.value)) ELSE c)

\* the request of line 120 settles; the loop goes on to the next await or
\* the function settles
extractSectionsStep(outcome) ==
    /\ pc = "extractCall"
    /\ inflight # <<>>
    /\ outcome \in Outcomes(SectionResponses)
    /\ lastCall' = Settled(outcome)
    /\ \E r \in {extractPage(allSections, lastCall'.completion)} :
          IF r.kind = "throw"
          THEN /\ pc' = "extractDone"
               /\ result' = r
               /\ inflight' = Tail(inflight)
               /\ UNCHANGED <<allSections, pageIndex, calls, touched>>
          ELSE /\ allSections' = r.value
               /\ IF pageIndex < Len(rfpPages)
                  THEN /\ pc' = "extractCall"
                       /\ pageIndex' = pageIndex + 1
                       /\ inflight' = Append(Tail(inflight),
                              Request(SectionPrompt(rfpPages[pageIndex + 1]), TRUE))
                       /\ calls' = [calls EXCEPT !.run = @ + 1, !.extract = @ + 1]
                       /\ touched' = issued(touched)
                       /\ UNCHANGED result
                  ELSE /\ pc' = "extractDone"
                       /\ result' = Return(r.value)
                       /\ inflight' = Tail(inflight)
                       /\ UNCHANGED <<pageIndex, calls, touched>>
    /\ UNCHANGED <<index, rfpPages, proposalPages, rfpSections, sectionIndex,
                   allFinalChunks, matchIndex, relevantPages>>
    /\ UNCHANGED <<uiVars, envVars, fnVars, extractLog, matchLog>>

(***************************************************************************)
(* geminiService.ts: findMatchingSection (lines 145-206)                   *)
(***************************************************************************)
\* the relevance checks begin at a page that is not fixed
callFindMatchingSectionAnyPage(i, sections, t) ==
    /\ sectionIndex' = i
    /\ relevantPages' = <<>>
    /\ loadingMessage' = Message("Processing pair %1: Matching proposal for RFP section %2 of %3...",
                                 <<index, i, Len(sections)>>)
    /\ IF proposalPages = <<>>
       THEN /\ pc' = "matchDone"
            /\ result' = Return(Null)
            /\ matchIndex' = 0
            /\ inflight' = <<>>
            /\ calls' = [calls EXCEPT !.match = 0]
            /\ touched' = t
       ELSE /\ pc' = "relevanceCall"
            /\ result' = NoValue
            /\ \E k \in 1..Len(proposalPages) :
                   /\ matchIndex' = k
                   /\ inflight' = <<Request(RelevancePrompt(sections[i], proposalPages[k]), FALSE)>>
            /\ calls' = [calls EXCEPT !.run = @ + 1, !.match = 1]
            /\ touched' = issued(t)

\* lines 243-245 with geminiService.ts lines 145-160: findMatchingSection is
\* called for section i and runs to its first await
callFindMatchingSection(i, sections, t) ==
    /\ sectionIndex' = i
    /\ relevantPages' = <<>>
    /\ loadingMessage' = Message("Processing pair %1: Matching proposal for RFP section %2 of %3...",
                                 <<index, i, Len(sections)>>)
    /\ IF proposalPages = <<>>
       THEN /\ pc' = "matchDone"
            /\ result' = Return(Null)
            /\ matchIndex' = 0
            /\ inflight' = <<>>
            /\ calls' = [calls EXCEPT !.match = 0]
            /\ touched' = t
       ELSE /\ pc' = "relevanceCall"
            /\ result' = NoValue
            /\ matchIndex' = 1
            /\ inflight' = <<Request(RelevancePrompt(sections[i], proposalPages[1]), FALSE)>>
            /\ calls' = [calls EXCEPT !.run = @ + 1, !.match = 1]
            /\ touched' = issued(t)

\* the answer has to be the word itself
isRelevantExactly(responseText) == ToUpperCase(Trim(responseText)) = YesWord

\* line 161: responseText.trim().toUpperCase().includes('YES')
isRelevant(responseText) == Includes(ToUpperCase(Trim(responseText)), YesWord)

\* an extraction request is sent whatever the relevance checks said
someAssumedRelevant(pages) == FALSE

\* line 173: relevantPages.length === 0
noneRelevant(pages) == Len(pages) = 0

\* the catch blocks rethrow every error
matchRethrowsAll(e) == TRUE

\* lines 164-168 and 198-202: the catch blocks rethrow connection errors only
matchRethrows(e) == IsOllamaConnectionError(e)

\* lines 159-171: one pass of the page loop, given the completion c of
\* callOllama: the relevant pages after the pass, or the error thrown
relevancePage(pages, page, c) ==
    IF c.kind = "return"
    THEN Return(IF isRelevant(c.value) THEN Append(pages, page) ELSE pages)
    ELSE IF matchRethrows(c.error) THEN c
    ELSE Return(pages)

\* the request of line 160 settles; the loop goes on, or line 173 returns
\* null, or line 196 sends the extraction request
relevanceStep(outcome) ==
    /\ pc = "relevanceCall"
    /\ inflight # <<>>
    /\ outcome \in Outcomes(RelevanceResponses)
    /\ lastCall' = Settled(outcome)
    /\ \E r \in {relevancePage(relevantPages, proposalPages[matchIndex], lastCall'.completion)} :
          IF r.kind = "throw"
          THEN /\ pc' = "matchDone"
               /\ result' = r
               /\ inflight' = Tail(inflight)
               /\ UNCHANGED <<relevantPages, matchIndex, calls, touched>>
          ELSE /\ relevantPages' = r.value
               /\ IF matchIndex < Len(proposalPages)
                  THEN /\ pc' = "relevanceCall"
                       /\ matchIndex' = matchIndex + 1
                       /\ inflight' = Append(Tail(inflight),
                              Request(RelevancePrompt(rfpSections[sectionIndex],
                                                      proposalPages[matchIndex + 1]), FALSE))
                       /\ calls' = [calls EXCEPT !.run = @ + 1, !.match = @ + 1]
                       /\ touched' = issued(touched)
                       /\ UNCHANGED result
                  ELSE IF noneRelevant(r.value)
                  THEN /\ pc' = "matchDone"
                       /\ result' = Return(Null)
                       /\ inflight' = Tail(inflight)
                       /\ UNCHANGED <<matchIndex, calls, touched>>
                  ELSE /\ pc' = "extractionCall"
                       /\ inflight' = Append(Tail(inflight),
                              Request(ExtractionPrompt(rfpSections[sectionIndex], r.value),
                                      FALSE))
                       /\ calls' = [calls EXCEPT !.run = @ + 1, !.match = @ + 1]
                       /\ touched' = issued(touched)
                       /\ UNCHANGED <<matchIndex, result>>
    /\ UNCHANGED <<index, rfpPages, proposalPages, rfpSections, sectionIndex,
                   allFinalChunks, pageIndex, allSections>>
    /\ UNCHANGED <<uiVars, envVars, fnVars, extractLog, matchLog>>

\* the response is returned as it came
extractMatchUntrimmed(c) ==
    IF c.kind = "return"
    THEN Return(IF c.value = <<>> THEN Null ELSE Some(c.value))
    ELSE IF matchRethrows(c.error) THEN c
    ELSE Return(Null)

\* the extraction request has no catch block
extractMatchUncaught(c) ==
    IF c.kind = "return"
    THEN Return(IF Trim(c.value) = <<>> THEN Null ELSE Some(Trim(c.value)))
    ELSE c

\* lines 195-205, given the completion c of callOllama: what
\* findMatchingSection settles to
extractMatch(c) ==
    IF c.kind = "return"
    THEN Return(IF Trim(c.value) = <<>> THEN Null ELSE Some(Trim(c.value)))
    ELSE IF matchRethrows(c.error) THEN c
    ELSE Return(Null)

\* the request of line 196 settles and the function with it
extractionStep(outcome) ==
    /\ pc = "extractionCall"
    /\ inflight # <<>>
    /\ outcome \in Outcomes(ExtractionResponses)
    /\ lastCall' = Settled(outcome)
    /\ pc' = "matchDone"
    /\ result' = extractMatch(lastCall'.completion)
    /\ inflight' = Tail(inflight)
    /\ UNCHANGED <<index, rfpPages, proposalPages, rfpSections, sectionIndex,
                   allFinalChunks, pageIndex, allSections, matchIndex, relevantPages>>
    /\ UNCHANGED <<uiVars, envVars, fnVars, calls, touched, extractLog, matchLog>>

(***************************************************************************)
(* Loader.tsx: handleGenerateJsonl resumes after its callees               *)
(***************************************************************************)
\* a pair without sections ends the run as a failure
afterExtractNoneFails ==
    /\ pc = "extractDone"
    /\ IF result.kind = "throw"
       THEN catchFinally(result.error)
       ELSE LET sections == result.value
                elog == Append(extractLog, [pair |-> CurrentPair.id, sections |-> sections,
                                            rfpPages |-> Len(rfpPages),
                                            proposalPages |-> Len(proposalPages)])
            IN IF Len(sections) = 0
               THEN catchFinally(Err("Error", NoValidSectionsMessage))
               ELSE /\ rfpSections' = sections
                    /\ callFindMatchingSection(1, sections, touched)
                    /\ extractLog' = elog
                    /\ UNCHANGED <<step, documentPairs, isLoading, error, downloadUrl,
                                   generatedEntries, envVars>>
                    /\ UNCHANGED <<index, rfpPages, proposalPages, allFinalChunks,
                                   pageIndex, allSections>>
                    /\ UNCHANGED <<lastCall, matchLog>>
    /\ UNCHANGED fnVars

\* lines 236-245: extractSectionsFromDocument has settled
afterExtract ==
    /\ pc = "extractDone"
    /\ IF result.kind = "throw"
       THEN catchFinally(result.error)
       ELSE LET sections == result.value
                elog == Append(extractLog, [pair |-> CurrentPair.id, sections |-> sections,
                                            rfpPages |-> Len(rfpPages),
                                            proposalPages |-> Len(proposalPages)])
            IN IF Len(sections) = 0
               THEN nextPair(allFinalChunks, elog, matchLog, touched)
               ELSE /\ rfpSections' = sections
                    /\ callFindMatchingSection(1, sections, touched)
                    /\ extractLog' = elog
                    /\ UNCHANGED <<step, documentPairs, isLoading, error, downloadUrl,
                                   generatedEntries, envVars>>
                    /\ UNCHANGED <<index, rfpPages, proposalPages, allFinalChunks,
                                   pageIndex, allSections>>
                    /\ UNCHANGED <<lastCall, matchLog>>
    /\ UNCHANGED fnVars

\* line 247: if (proposalSection)
Truthy(x) == x.some /\ x.val # <<>>

\* the record is put in front of the earlier ones
pushChunkFront(chunks, rfpSection, proposalSection) ==
    IF Truthy(proposalSection)
    THEN <<[rfp_section |-> rfpSection, proposal_section |-> proposalSection.val]>> \o chunks
    ELSE chunks

\* lines 247-249
pushChunk(chunks, rfpSection, proposalSection) ==
    IF Truthy(proposalSection)
    THEN Append(chunks, [rfp_section |-> rfpSection, proposal_section |-> proposalSection.val])
    ELSE chunks

\* lines 245-250: findMatchingSection has settled
afterMatch ==
    /\ pc = "matchDone"
    /\ IF result.kind = "throw"
       THEN catchFinally(result.error)
       ELSE LET rfpSection == rfpSections[sectionIndex]
                chunks == pushChunk(allFinalChunks, rfpSection, result.value)
                mlog == Append(matchLog, [pair |-> CurrentPair.id, no |-> sectionIndex,
                                          section |-> rfpSection, match |-> result.value])
                t == IF chunks # allFinalChunks
                     THEN [touched EXCEPT !.recorded = @ \cup {CurrentPair.id}]
                     ELSE touched
            IN IF sectionIndex < Len(rfpSections)
               THEN /\ callFindMatchingSection(sectionIndex + 1, rfpSections, t)
                    /\ allFinalChunks' = chunks
                    /\ matchLog' = mlog
                    /\ UNCHANGED <<step, documentPairs, isLoading, error, downloadUrl,
                                   generatedEntries, envVars>>
                    /\ UNCHANGED <<index, rfpPages, proposalPages, rfpSections,
                                   pageIndex, allSections>>
                    /\ UNCHANGED <<lastCall, extractLog>>
               ELSE nextPair(chunks, extractLog, mlog, t)
    /\ UNCHANGED fnVars

(***************************************************************************)
(* The application.                                                        *)
(***************************************************************************)
Next ==
    \/ \E i \in 1..Len(documentPairs), type \in {"rfp", "proposal"}, files \in FileLists :
           handlePairChange(documentPairs[i].id, type, files)
    \/ addPair
    \/ \E i \in 1..Len(documentPairs) : removePair(documentPairs[i].id)
    \/ handleGenerateJsonl
    \/ \E settled \in SeqsUpTo({readerOnLoad(f) : f \in Files} \cup {Throw(ReaderErrorEvent)},
                             MaxRfpFiles) : rfpFilesRead(settled)
    \/ \E settled \in {readerOnLoad(f) : f \in Files}
                          \cup {Throw(ReaderErrorEvent), Throw(Err("TypeError", <<>>))} :
           proposalRead(settled)
    \/ \E outcome \in Outcomes(SectionResponses) : extractSectionsStep(outcome)
    \/ afterExtract
    \/ \E outcome \in Outcomes(RelevanceResponses) : relevanceStep(outcome)
    \/ \E outcome \in Outcomes(ExtractionResponses) : extractionStep(outcome)
    \/ afterMatch
    \/ downloadAgain
    \/ handleReset

Spec == Init /\ [][Next]_vars

(***************************************************************************)
(* The pure functions on their own: an input is drawn, the function is     *)
(* applied to it once.                                                     *)
(***************************************************************************)
TextAlphabet == {"a", "b"}

\* textToPages(text, chunkSize) for the texts up to MaxTextLen and chunkSize > 0
PagerInputs ==
    {[text |-> t, chunkSize |-> n] : t \in SeqsUpTo(TextAlphabet, MaxTextLen), n \in 1..MaxChunk}

PagerInit == AppInit /\ input \in PagerInputs /\ output = NoValue

callTextToPages ==
    /\ output = NoValue
    /\ output' = Return(textToPages(input.text, input.chunkSize))
    /\ UNCHANGED <<input, uiVars, envVars, runVars, histVars>>

PagerNext == callTextToPages

PagerSpec == PagerInit /\ [][PagerNext]_vars

\* the characters JSON texts of the inputs are made of
BodyAlphabet == {"[", "]", "\"", "a", ",", "1"}

\* texts longer than MaxBodyLen
LongBodies ==
    { <<"[","\"","a","\"",",","\"","b","\"","]">>,
      <<"{","\"","a","\"",":","1","}">>,
      <<"n","u","l","l">>,
      <<"o","o","p","s">>,
      <<"[","1",","," ","[","]","]">> }

\* what a model puts before and after the JSON text
BodyPrefixes ==
    { <<>>, <<" ">>, FenceJson \o <<"\n">>, Fence \o <<"\n">>, Fence,
      Fence \o <<"j","s","\n">> }
BodySuffixes == { <<>>, <<"\n">>, <<"\n">> \o Fence, Fence \o <<" ">> }

ParserInputs ==
    { p \o b \o q : p \in BodyPrefixes, q \in BodySuffixes,
                    b \in SeqsUpTo(BodyAlphabet, MaxBodyLen) \cup LongBodies }

ParserInit == AppInit /\ input \in ParserInputs /\ output = NoValue

callSafeJsonParse ==
    /\ output = NoValue
    /\ output' = safeJsonParse(input)
    /\ UNCHANGED <<input, uiVars, envVars, runVars, histVars>>

ParserNext == callSafeJsonParse

ParserSpec == ParserInit /\ [][ParserNext]_vars

\* the words error bodies of the endpoint are made of
BodyWords ==
    { <<"f","e","t","c","h">>, <<"N","e","t","w","o","r","k">>, <<"b","u","s","y">>,
      <<"n","o","t"," ","f","o","u","n","d">>, <<"\n">> }

ErrorBodies == { Concat(ws) : ws \in SeqsUpTo(BodyWords, MaxBodyWords) }

ErrorStatuses == {400, 404, 500, 503}

\* the payloads of a success status
Payloads ==
    << JObject(ResponseKey, JString(<<>>)),
       JObject(ResponseKey, JString(<<"o","k">>)),
       JObject(ResponseKey, [t |-> "number", v |-> <<"1">>]),
       JObject(ResponseKey, [t |-> "literal", v |-> <<"n","u","l","l">>]),
       JObject(<<"e","r","r","o","r">>, JString(<<"x">>)),
       JArray(<<>>),
       JString(<<"o","k">>),
       JString(<<>>),
       [t |-> "number", v |-> <<"0">>],
       [t |-> "literal", v |-> <<"n","u","l","l">>] >>

\* a success status with payload data
Success(data) == [kind |-> "http", ok |-> TRUE, status |-> 200, json |-> Return(data)]

\* a success status whose body is not JSON: response.json() rejects
Unparsable == [kind |-> "http", ok |-> TRUE, status |-> 200, json |-> Throw(SyntaxError)]

\* what can become of one fetch
IsFetchOutcome(o) ==
    \/ o = NetworkFailure
    \/ \E st \in ErrorStatuses, b \in ErrorBodies : o = HttpError(st, b)
    \/ \E i \in DOMAIN Payloads : o = Success(Payloads[i])
    \/ o = Unparsable

OllamaInit == AppInit /\ IsFetchOutcome(input) /\ output = NoValue

callCallOllama ==
    /\ output = NoValue
    /\ output' = callOllama(input)
    /\ UNCHANGED <<input, uiVars, envVars, runVars, histVars>>

OllamaNext == callCallOllama

OllamaSpec == OllamaInit /\ [][OllamaNext]_vars

(***************************************************************************)
(* Properties of the pure functions.                                       *)
(***************************************************************************)
\* C9: for every text and every chunkSize n > 0, the pages textToPages returns
\* concatenate in order to the text, every page but the last has length n,
\* no page is empty, and the empty text has no page.
C9_PagesPartitionText ==
    output.kind = "return" =>
        LET pages == output.value
            n == input.chunkSize
        IN /\ Concat(pages) = input.text
           /\ \A i \in 1..(Len(pages) - 1) : Len(pages[i]) = n
           /\ \A i \in 1..Len(pages) : pages[i] # <<>>
           /\ (input.text = <<>> => pages = <<>>)

\* a text that needs several pages, the last one shorter than chunkSize
C9_ShortLastPage ==
    /\ output.kind = "return"
    /\ Len(output.value) >= 2
    /\ Len(output.value[Len(output.value)]) < input.chunkSize

\* C10: safeJsonParse raises for no input; when the text left after the
\* fences are stripped is not valid JSON it returns an empty array, and when
\* it is valid JSON it returns the parsed value.
C10_ParseNeverRaises ==
    output.kind # "none" =>
        /\ output.kind = "return"
        /\ LET parsed == JSONparse(Sanitize(input))
           IN IF parsed.kind = "throw"
              THEN output.value = EmptyArray
              ELSE output.value = parsed.value

\* a fenced text that is not valid JSON has been parsed to the empty array
C10_GarbageParsed ==
    /\ output.kind = "return"
    /\ StartsWith(input, Fence)
    /\ Sanitize(input) # <<>>
    /\ JSONparse(Sanitize(input)).kind = "throw"
    /\ output.value = EmptyArray

\* the payload of a success status lacks a string response field
MissingResponse(o) ==
    /\ o.kind = "http"
    /\ o.ok
    /\ o.json.kind = "return"
    /\ ~(/\ o.json.value.t = "object"
         /\ ResponseKey \in DOMAIN o.json.value.v
         /\ o.json.value.v[ResponseKey].t = "string")

C4_AsStated ==
    (output.kind # "none" /\ input.kind = "http" /\ ~input.ok /\ input.text.kind = "return") =>
        /\ output.kind = "throw"
        /\ ~IsOllamaConnectionError(output.error)
        /\ Includes(output.error.message, NumberToString(input.status))
        /\ Includes(output.error.message, input.text.value)

(***************************************************************************)
(* Properties of a run.                                                    *)
(***************************************************************************)
\* a request is awaited
AwaitingCall == pc \in {"extractCall", "relevanceCall", "extractionCall"}

\* a callee of the handler has settled and the handler has not yet resumed
CalleeSettled == pc \in {"extractDone", "matchDone"}

\* C1: when a request of a run fails with an OllamaConnectionError, whether
\* it is a section request, a relevance request or the extraction request,
\* extractSectionsFromDocument or findMatchingSection rejects with that error
\* at once, no request is sent from then on, and the handler ends the run
\* with the error's remediation message as the error shown.
C1_ConnectionFailureAborts ==
    [][ /\ (/\ AwaitingCall
            /\ lastCall'.kind = "settled"
            /\ lastCall'.completion.kind = "throw"
            /\ IsOllamaConnectionError(lastCall'.completion.error))
           => /\ pc' \in {"extractDone", "matchDone"}
              /\ result' = lastCall'.completion
              /\ inflight' = <<>>
              /\ calls'.run = calls.run
        /\ (CalleeSettled /\ result.kind = "throw")
           => /\ IsOllamaConnectionError(result.error)
              /\ pc' = "idle"
              /\ inflight' = <<>>
              /\ ~isLoading'
              /\ step' = Upload
              /\ error' = Some(ConnectionFailedMessage)
      ]_vars

\* a relevance request of the first of two pairs has failed with a
\* connection error while a section and a page were still to come
C1_FailedMidRun ==
    /\ pc = "matchDone"
    /\ result.kind = "throw"
    /\ IsOllamaConnectionError(result.error)
    /\ index < Len(completedPairs)
    /\ sectionIndex < Len(rfpSections)
    /\ matchIndex < Len(proposalPages)

\* C2 as stated: in extractSectionsFromDocument, when the request for a page
\* ends with a non-success HTTP status or with a response that is not JSON,
\* the page adds no section and the loop goes on: the next page gets
\* its request, and after the last page the sections gathered are returned.
C2_AsStated ==
    [][ (/\ pc = "extractCall"
         /\ lastCall'.kind = "settled"
         /\ lastCall'.outcome.kind = "http"
         /\ \/ ~lastCall'.outcome.ok
            \/ /\ lastCall'.completion.kind = "return"
               /\ JSONparse(Sanitize(lastCall'.completion.value)).kind = "throw")
        => /\ allSections' = allSections
           /\ IF pageIndex < Len(rfpPages)
              THEN /\ pc' = "extractCall"
                   /\ pageIndex' = pageIndex + 1
                   /\ inflight' = <<Request(SectionPrompt(rfpPages[pageIndex + 1]), TRUE)>>
              ELSE /\ pc' = "extractDone"
                   /\ result' = Return(allSections)
      ]_vars

\* C5: when findMatchingSection has found no page relevant, which includes
\* a proposal without pages, it resolves to null and has sent one request per
\* proposal page and no other.
C5_NoRelevantPageNoExtraction ==
    (pc = "matchDone" /\ result.kind = "return" /\ relevantPages = <<>>) =>
        /\ result.value = Null
        /\ calls.match = Len(proposalPages)

\* both pages of a proposal were asked about and neither was found relevant
C5_TwoPagesNoneRelevant ==
    /\ pc = "matchDone"
    /\ result = Return(Null)
    /\ relevantPages = <<>>
    /\ Len(proposalPages) = 2
    /\ calls.match = 2

\* s without its leading and trailing white space, by positions
Stripped(s) ==
    LET black == {i \in 1..Len(s) : s[i] \notin {" ", "\n", "\t", "\r"}}
    IN IF black = {} THEN <<>>
       ELSE SubSeq(s, CHOOSE i \in black : \A j \in black : i <= j,
                      CHOOSE i \in black : \A j \in black : i >= j)

\* C6: when a page was found relevant and the extraction request succeeds,
\* findMatchingSection resolves to the response without its leading and
\* trailing white space, and to null when nothing is left of it; a null
\* result adds no record for the section.
C6_MatchIsTrimmedResponse ==
    [][ /\ (/\ pc = "extractionCall"
            /\ lastCall'.kind = "settled"
            /\ lastCall'.completion.kind = "return")
           => /\ relevantPages # <<>>
              /\ pc' = "matchDone"
              /\ result' = Return(IF Stripped(lastCall'.completion.value) = <<>>
                                  THEN Null
                                  ELSE Some(Stripped(lastCall'.completion.value)))
        /\ (pc = "matchDone" /\ result = Return(Null))
           => IF pc' = "idle"
              THEN step' = Download => generatedEntries' = Len(allFinalChunks)
              ELSE allFinalChunks' = allFinalChunks
      ]_vars

\* the extraction request was answered with white space only
C6_BlankAnswer ==
    /\ pc = "matchDone"
    /\ relevantPages # <<>>
    /\ lastCall.kind = "settled"
    /\ lastCall.completion = Return(<<" ", "\n">>)
    /\ result = Return(Null)

\* the pairs of the list with no RFP file or no proposal file
IncompleteIds ==
    {documentPairs[i].id : i \in {j \in 1..Len(documentPairs) :
        documentPairs[j].rfp = <<>> \/ ~documentPairs[j].proposal.some}}

\* C7: a pair without an RFP file or without a proposal file has no file
\* read, no request sent and no record made for it, whatever the other pairs
\* are; and when no pair is complete no run starts: no request is sent, and
\* generating only sets the error shown.
C7_IncompletePairsExcluded ==
    [][ /\ (touched'.read \cup touched'.called \cup touched'.recorded) \cap IncompleteIds' = {}
        /\ (IncompleteIds = {documentPairs[i].id : i \in 1..Len(documentPairs)})
           => /\ pc' = "idle"
              /\ inflight' = <<>>
              /\ calls' = NoCalls
              /\ ~isLoading'
              /\ step' = Upload
              /\ documentPairs' = documentPairs => error' = Some(PleaseProvideMessage)
      ]_vars

\* a run over one complete pair and one pair without proposal has made a
\* dataset
C7_RunBesideIncompletePair ==
    /\ step = Download
    /\ Len(documentPairs) = 2
    /\ \E i \in 1..2 : documentPairs[i].rfp # <<>> /\ ~documentPairs[i].proposal.some
    /\ Cardinality(touched.called) = 1
    /\ touched.recorded = touched.called

\* the sections extractSectionsFromDocument returned for the pair
LoggedSections(id) ==
    extractLog[CHOOSE i \in 1..Len(extractLog) : extractLog[i].pair = id].sections

\* what findMatchingSection returned for section j of the pair
LoggedMatch(id, j) ==
    matchLog[CHOOSE k \in 1..Len(matchLog) : matchLog[k].pair = id /\ matchLog[k].no = j].match

\* the records due for a pair: section order, a record where there is a match
RecordsOfPair(id) ==
    Concat([j \in 1..Len(LoggedSections(id)) |->
               IF LoggedMatch(id, j).some
               THEN <<[requirement |-> LoggedSections(id)[j], answer |-> LoggedMatch(id, j).val]>>
               ELSE <<>>])

\* the records due for the run: pair order
RecordsOfRun ==
    Concat([i \in 1..Len(completedPairs) |-> RecordsOfPair(completedPairs[i].id)])

\* C8: when a run has made a dataset, its lines are, for each complete pair
\* in the order of the list and each section extracted from the pair in the
\* order of extraction, one record of the section and the match
\* findMatchingSection returned for it if that was not null, and no line
\* otherwise; every answer is a non-empty string.
C8_RecordsInPairThenSectionOrder ==
    step = Download =>
        /\ blob.some
        /\ Len(blob.val) = Len(RecordsOfRun)
        /\ generatedEntries = Len(RecordsOfRun)
        /\ \A k \in 1..Len(RecordsOfRun) :
              /\ blob.val[k].messages[1] =
                     [role |-> "user",
                      content |-> UserContentHead \o RecordsOfRun[k].requirement.v]
              /\ blob.val[k].messages[2] =
                     [role |-> "assistant", content |-> RecordsOfRun[k].answer]
              /\ RecordsOfRun[k].answer # <<>>

\* a dataset of two pairs, with records of both and a section without match
C8_TwoPairsOneGap ==
    /\ step = Download
    /\ Cardinality(touched.recorded) = 2
    /\ Len(blob.val) >= 3
    /\ \E k \in 1..Len(matchLog) : ~matchLog[k].match.some
    /\ \E k \in 1..(Len(blob.val) - 1) :
           blob.val[k].messages[1].content # blob.val[k + 1].messages[1].content

(***************************************************************************)
(* Properties of safeJsonParse on fenced texts.                            *)
(***************************************************************************)
\* the text between a leading part p and a trailing part q of s
Between(s, p, q) == SubSeq(s, Len(p) + 1, Len(s) - Len(q))

\* s is p, then a valid JSON array text, then q
WrapsArray(s, p, q) ==
    /\ Len(s) >= Len(p) + Len(q)
    /\ StartsWith(s, p)
    /\ EndsWith(s, q)
    /\ JSONparse(Between(s, p, q)).kind = "return"
    /\ IsArray(JSONparse(Between(s, p, q)).value)

\* the trailing fences of the inputs
TrailingFences == { <<"\n">> \o Fence, Fence \o <<" ">> }

\* C11 as stated: for a valid JSON array text J between a leading fence,
\* with or without a language tag, and a trailing fence, safeJsonParse
\* returns what it returns for J alone, the array J denotes.
C11_AsStated ==
    output.kind # "none" =>
        \A p \in {Fence \o <<"\n">>, FenceJson \o <<"\n">>, Fence \o <<"j","s","\n">>},
           q \in TrailingFences :
            WrapsArray(input, p, q) =>
                /\ output = Return(JSONparse(Between(input, p, q)).value)
                /\ output = safeJsonParse(Between(input, p, q))

(***************************************************************************)
(* Two runs over the same pairs with a deterministic endpoint.  The pairs  *)
(* to upload are drawn at the start (input.pairs); the endpoint answers a  *)
(* request it has seen before as it did then; the files stay readable.     *)
(* output.log lists the settled requests of the current run, and           *)
(* input.first keeps what the first run did and left.                      *)
(***************************************************************************)
\* the files of the pairs of the list, without the ids
PairFiles(pairs) ==
    [i \in 1..Len(pairs) |-> [rfp |-> pairs[i].rfp, proposal |-> pairs[i].proposal]]

\* the lists of complete pairs that are run twice
TwicePairs ==
    LET one == {[rfp |-> <<f>>, proposal |-> Some(g)] : f \in Files, g \in Files}
    IN {<<p>> : p \in one}
         \cup {<<p, p>> : p \in {[rfp |-> <<BlankFile>>, proposal |-> Some(BigFile)]}}

\* what the endpoint of the two runs may do with a request
TwiceOutcomes(responses) == {NetworkFailure, HttpError(500, "busy")} \cup {Reply(r) : r \in responses}
TwiceSections == {r \in SectionResponses : safeJsonParse(r).value # EmptyArray}
TwiceRelevance == {r \in RelevanceResponses : Len(r) <= 3}
TwiceExtraction == {r \in ExtractionResponses : Len(r) # 2}

TwiceInit ==
    /\ AppInit
    /\ input \in {[kind |-> "twice", pairs |-> ps, first |-> Null] : ps \in TwicePairs}
    /\ output = [kind |-> "log", log |-> <<>>]

\* every settled request of the current run is in the log
Observed == pc = "idle" \/ Len(output.log) = calls.run - Len(inflight)

\* the endpoint is a function of the request
Deterministic(outcome) ==
    /\ inflight # <<>>
    /\ \A k \in 1..Len(output.log) :
           output.log[k].request = Head(inflight) => output.log[k].outcome = outcome
    /\ input.first.some =>
           \A k \in 1..Len(input.first.val.log) :
               input.first.val.log[k].request = Head(inflight)
                   => input.first.val.log[k].outcome = outcome

\* the list after an upload step is on the way to the pairs to upload
Toward(pairs) ==
    /\ Len(pairs) <= Len(input.pairs)
    /\ \A i \in 1..Len(pairs) :
           /\ pairs[i].rfp \in {<<>>, input.pairs[i].rfp}
           /\ pairs[i].proposal \in {Null, input.pairs[i].proposal}

\* the settled request is written to the log
observe ==
    /\ ~Observed
    /\ output' = [output EXCEPT !.log = Append(@, [request |-> lastCall.request,
                                                  outcome |-> lastCall.outcome])]
    /\ UNCHANGED <<input, uiVars, envVars, runVars, histVars>>

\* the first run is over: what it did and left is kept
remember ==
    /\ pc = "idle"
    /\ ~input.first.some
    /\ output.log # <<>>
    /\ input' = [input EXCEPT !.first = Some([log |-> output.log, step |-> step,
                                              error |-> error, blob |-> blob,
                                              generatedEntries |-> generatedEntries])]
    /\ output' = [output EXCEPT !.log = <<>>]
    /\ UNCHANGED <<uiVars, envVars, runVars, histVars>>

TwiceNext ==
    \/ \E i \in 1..Len(documentPairs), type \in {"rfp", "proposal"}, files \in FileLists :
           /\ output.log = <<>>
           /\ PairFiles(documentPairs) # input.pairs
           /\ handlePairChange(documentPairs[i].id, type, files)
           /\ Toward(documentPairs')
           /\ documentPairs' # documentPairs
    \/ (output.log = <<>> /\ Len(documentPairs) < Len(input.pairs) /\ addPair)
    \/ (output.log = <<>> /\ PairFiles(documentPairs) = input.pairs /\ handleGenerateJsonl)
    \/ \E settled \in SeqsUpTo({readerOnLoad(f) : f \in Files}, MaxRfpFiles) :
           rfpFilesRead(settled)
    \/ \E settled \in {readerOnLoad(f) : f \in Files} : proposalRead(settled)
    \/ \E outcome \in TwiceOutcomes(TwiceSections) :
           Observed /\ Deterministic(outcome) /\ extractSectionsStep(outcome)
    \/ (Observed /\ afterExtract)
    \/ \E outcome \in TwiceOutcomes(TwiceRelevance) :
           Observed /\ Deterministic(outcome) /\ relevanceStep(outcome)
    \/ \E outcome \in TwiceOutcomes(TwiceExtraction) :
           Observed /\ Deterministic(outcome) /\ extractionStep(outcome)
    \/ (Observed /\ afterMatch)
    \/ observe
    \/ remember
    \/ (input.first.some /\ output.log = <<>> /\ handleReset)

TwiceSpec == TwiceInit /\ [][TwiceNext]_vars

\* the second run is over
SecondRunOver == input.first.some /\ pc = "idle" /\ output.log # <<>>

\* C12: with an endpoint that is a function of the request, a second run
\* over the same pairs sends the requests of the first run in the same
\* order, and leaves the same dataset lines in the same order (or the same
\* error); while it runs, what it has sent is a prefix of what the first
\* run sent.
C12_SecondRunRepeatsFirst ==
    input.kind = "twice" /\ input.first.some =>
        /\ Len(output.log) <= Len(input.first.val.log)
        /\ \A k \in 1..Len(output.log) : output.log[k] = input.first.val.log[k]
        /\ SecondRunOver =>
              /\ output.log = input.first.val.log
              /\ blob = input.first.val.blob
              /\ generatedEntries = input.first.val.generatedEntries
              /\ step = input.first.val.step
              /\ error = input.first.val.error

\* a second run over two pairs has made a dataset of several lines again
C12_DatasetMadeTwice ==
    /\ SecondRunOver
    /\ step = Download
    /\ Len(input.pairs) = 2
    /\ Len(blob.val) >= 2

(***************************************************************************)
(* C13: a file that cannot be read.                                        *)
(***************************************************************************)
\* the run is reading the files of a pair
ReadingFiles == pc \in {"readRfp", "readProposal"}

\* C13 as stated: when a file of the pair being read cannot be read, only
\* that pair is lost: while complete pairs remain after it, the run goes on
\* (it does not end at the failed read), and the records of the pairs
\* before it are kept.
C13_AsStated ==
    [][(ReadingFiles /\ error' # error)
          => /\ index < Len(completedPairs) => pc' # "idle"
             /\ allFinalChunks' = allFinalChunks]_vars

(***************************************************************************)
(* C14: a run that ends without records.                                   *)
(***************************************************************************)
\* findMatchingSection gave nothing to record
NoMatch(x) == ~x.some \/ x.val = <<>>

\* the last pair is done and nothing was thrown
LastPairDone ==
    /\ index = Len(completedPairs)
    /\ \/ pc = "extractDone" /\ result.kind = "return" /\ Len(result.value) = 0
       \/ pc = "matchDone" /\ result.kind = "return" /\ sectionIndex = Len(rfpSections)

\* no record was accumulated in the run
NoRecords == allFinalChunks = <<>> /\ (pc = "matchDone" => NoMatch(result.value))

\* C14: when the last pair is done without a thrown error and no record was
\* accumulated, the run ends with the "could not extract any valid sections"
\* message; no dataset file is created or downloaded and the step stays
\* Upload.
C14_NoRecordsNoDataset ==
    [][(LastPairDone /\ NoRecords)
          => /\ pc' = "idle"
             /\ error' = Some(NoValidSectionsMessage)
             /\ ~isLoading'
             /\ step' = Upload
             /\ blob' = Null /\ downloadUrl' = Null
             /\ downloads' = 0 /\ generatedEntries' = 0]_vars

\* a run over two complete pairs has ended without records
C14_TwoPairsNoRecords ==
    /\ pc = "idle"
    /\ error = Some(NoValidSectionsMessage)
    /\ Len(completedPairs) = 2
    /\ step = Upload

(***************************************************************************)
(* C15: after a failed run.                                                *)
(***************************************************************************)
\* C15: a shown error (connection failure, file error, no complete pair, no
\* record) leaves the upload screen usable: nothing is loading, the step is
\* Upload and handleGenerateJsonl can be invoked; the step that sets the
\* error leaves the document pairs as they were; and an invocation that
\* starts processing clears the error.
C15_RetryableAfterFailure ==
    /\ [](error.some => /\ pc = "idle"
                        /\ ~isLoading
                        /\ step = Upload
                        /\ ENABLED handleGenerateJsonl)
    /\ [][(error' # error /\ error'.some) => documentPairs' = documentPairs]_vars
    /\ [][(pc = "idle" /\ pc' # "idle") => error' = Null]_vars

\* a run over two complete pairs has ended with a file error
C15_FileErrorShown ==
    /\ error = Some(UnknownErrorMessage)
    /\ Len(completedPairs) = 2
    /\ pc = "idle"

(***************************************************************************)
(* C16: one request at a time.                                             *)
(***************************************************************************)
\* C16: at most one request to the endpoint is outstanding at any moment of
\* a run, and a request is sent only when the one before it has settled: in
\* the step that sends it, nothing was outstanding or the outstanding
\* request settles in that step.
C16_CallsNeverOverlap ==
    /\ [](Len(inflight) <= 1)
    /\ [][calls'.run > calls.run
             => /\ Len(inflight') = 1
                /\ calls'.run = calls.run + 1
                /\ inflight # <<>>
                      => lastCall'.kind = "settled" /\ lastCall'.request = Head(inflight)]_vars

\* a request of the second pair is outstanding after those of the first
C16_LaterRequestOutstanding ==
    /\ index = 2
    /\ calls.run >= 3
    /\ Len(inflight) = 1
    /\ pc = "relevanceCall"

(***************************************************************************)
(* C17: a pair without sections.                                           *)
(***************************************************************************)
\* extractSectionsFromDocument has returned no section for the pair
NoSections == pc = "extractDone" /\ result.kind = "return" /\ Len(result.value) = 0

\* C17: when the extraction of a pair returns no section, the handler sends
\* no request for that pair's proposal and records nothing for it; with a
\* pair left it goes on to read that pair, keeping the records made so far
\* and showing no error; after the last pair the records made so far are the
\* dataset.
C17_PairWithoutSectionsSkipped ==
    [][NoSections
          => /\ calls'.run <= calls.run
             /\ inflight' = <<>>
             /\ IF index < Len(completedPairs)
                THEN /\ pc' = "readRfp"
                     /\ index' = index + 1
                     /\ allFinalChunks' = allFinalChunks
                     /\ error' = Null /\ isLoading'
                ELSE /\ pc' = "idle"
                     /\ allFinalChunks # <<>>
                           => /\ step' = Download
                              /\ blob' = Some(jsonlContent(allFinalChunks))
                              /\ error' = Null]_vars

\* the first pair gave a record, the second gave no section, and the
\* dataset holds the record of the first
C17_SkippedAfterRecord ==
    /\ step = Download
    /\ Len(extractLog) = 2
    /\ extractLog[2].sections = <<>>
    /\ generatedEntries >= 1

(***************************************************************************)
(* C18: the relevance test.                                                *)
(***************************************************************************)
\* the letters y, e, s follow each other somewhere in the text, in any case
MentionsYes(s) ==
    \E k \in 1..(Len(s) - 2) :
        s[k] \in {"y", "Y"} /\ s[k + 1] \in {"e", "E"} /\ s[k + 2] \in {"s", "S"}

\* the relevance request of the current page settles in the step
RelevanceSettles == pc = "relevanceCall" /\ (pc' # pc \/ matchIndex' # matchIndex)

\* C18: the page of a relevance request is added to the relevant pages if
\* and only if callOllama returned and the response has the letters YES in
\* it, in any case and anywhere; otherwise the relevant pages stay as they
\* are.
C18_RelevantIffResponseMentionsYes ==
    [][RelevanceSettles
          => IF /\ lastCall'.completion.kind = "return"
                /\ MentionsYes(lastCall'.completion.value)
             THEN relevantPages' = Append(relevantPages, proposalPages[matchIndex])
             ELSE relevantPages' = relevantPages]_vars

\* the response began with "yesterday" and the page is among the relevant ones
C18_YesterdayIsRelevant ==
    /\ pc = "relevanceCall"
    /\ matchIndex = 2
    /\ lastCall.kind = "settled"
    /\ lastCall.completion = Return(<<"y","e","s","t","e","r","d","a","y",":"," ","n","o">>)
    /\ relevantPages = <<proposalPages[1]>>

(***************************************************************************)
(* C19: the result of extractSectionsFromDocument.                         *)
(***************************************************************************)
\* the section request of the current page settles in the step
ExtractSettles == pc = "extractCall" /\ (pc' # pc \/ pageIndex' # pageIndex)

\* callOllama completed with an OllamaConnectionError
ConnectionFailed(c) == c.kind = "throw" /\ IsOllamaConnectionError(c.error)

\* what the page adds: the elements of the parsed response when the request
\* returned and the parsed value is an array, nothing otherwise
Contribution(c) ==
    IF c.kind = "return" /\ IsArray(safeJsonParse(c.value).value)
    THEN safeJsonParse(c.value).value.v
    ELSE <<>>

\* C19: extractSectionsFromDocument starts from no section at the first
\* page; each page whose request does not fail with an OllamaConnectionError
\* appends its contribution, whole and in order, to the sections of the
\* pages before it (nothing is removed or merged), the pages are asked one
\* after the other in page order, and after the last page the function
\* returns the sections so accumulated.
C19_ResultIsConcatenation ==
    /\ [][(pc # "extractCall" /\ pc' = "extractCall")
             => allSections' = <<>> /\ pageIndex' = 1]_vars
    /\ [][(ExtractSettles /\ ~ConnectionFailed(lastCall'.completion))
             => /\ allSections' = allSections \o Contribution(lastCall'.completion)
                /\ IF pageIndex < Len(rfpPages)
                   THEN /\ pc' = "extractCall"
                        /\ pageIndex' = pageIndex + 1
                        /\ inflight' = <<Request(SectionPrompt(rfpPages[pageIndex + 1]), TRUE)>>
                   ELSE /\ pc' = "extractDone"
                        /\ result' = Return(allSections')]_vars

\* two pages gave the same section and the result holds it twice
C19_SameSectionTwice ==
    /\ pc = "extractDone"
    /\ result.kind = "return"
    /\ Len(result.value) = 2
    /\ result.value[1] = result.value[2]

(***************************************************************************)
(* C20: an error in the relevance phase.                                   *)
(***************************************************************************)
\* C20: the relevance requests of a section are as many as the pages asked
\* so far, one per page in page order; when one fails with an error that is
\* not an OllamaConnectionError, the pages found relevant before stay so,
\* the page of the failed request is not added, and the next page gets its
\* request (after the last page the function goes on to its second phase).
C20_RelevanceErrorSkipsOnePage ==
    /\ [](pc = "relevanceCall" => calls.match = matchIndex)
    /\ [][(pc = "relevanceCall" /\ pc' = "relevanceCall")
             => matchIndex' \in {matchIndex, matchIndex + 1}]_vars
    /\ [][(/\ RelevanceSettles
           /\ lastCall'.completion.kind = "throw"
           /\ ~ConnectionFailed(lastCall'.completion))
             => /\ relevantPages' = relevantPages
                /\ IF matchIndex < Len(proposalPages)
                   THEN /\ pc' = "relevanceCall"
                        /\ matchIndex' = matchIndex + 1
                        /\ inflight' = <<Request(RelevancePrompt(rfpSections[sectionIndex],
                                                    proposalPages[matchIndex + 1]), FALSE)>>
                   ELSE IF relevantPages = <<>>
                   THEN pc' = "matchDone" /\ result' = Return(Null)
                   ELSE pc' = "extractionCall"]_vars

\* the first page was found relevant, the request of the second failed, and
\* the extraction request is sent with the first page
C20_RelevantPageKept ==
    /\ pc = "extractionCall"
    /\ Len(proposalPages) = 2
    /\ lastCall.kind = "settled"
    /\ lastCall.completion.kind = "throw"
    /\ relevantPages = <<proposalPages[1]>>

(***************************************************************************)
(* C21: the extraction request of findMatchingSection.                     *)
(***************************************************************************)
\* the pages of the list are pages of the proposal, in page order
InPageOrder(pages) ==
    /\ \A k \in 1..Len(pages) : \E j \in 1..Len(proposalPages) : pages[k] = proposalPages[j]
    /\ \A k \in 1..(Len(pages) - 1) : pages[k].no < pages[k + 1].no

\* C21: the extraction request is outstanding only when every page of the
\* proposal has had its relevance request; it is the request number (pages
\* + 1) of the invocation, and its prompt holds the section and the relevant
\* pages, at least one, in page order, joined with the separator.  No other
\* request follows it in the invocation, so an invocation that returns with
\* a relevant page has made (pages + 1) requests.
C21_OneExtractionAfterAllPages ==
    /\ [](pc = "extractionCall"
             => /\ matchIndex = Len(proposalPages)
                /\ calls.match = Len(proposalPages) + 1
                /\ relevantPages # <<>>
                /\ InPageOrder(relevantPages)
                /\ inflight = <<[prompt |-> [ask |-> "extraction",
                                            section |-> rfpSections[sectionIndex],
                                            pages |-> relevantPages,
                                            separator |-> PageSeparator],
                                 jsonMode |-> FALSE]>>)
    /\ []((pc = "matchDone" /\ result.kind = "return" /\ relevantPages # <<>>)
             => calls.match = Len(proposalPages) + 1)
    /\ [][pc = "extractionCall"
             => /\ pc' \in {"extractionCall", "matchDone"}
                /\ calls'.run = calls.run
                /\ inflight' \in {inflight, <<>>}]_vars

\* the extraction request is outstanding with the two pages of the proposal
C21_TwoPagesJoined ==
    /\ pc = "extractionCall"
    /\ Len(proposalPages) = 2
    /\ relevantPages = proposalPages
    /\ calls.match = 3

(***************************************************************************)
(* C22: an error of the extraction request.                                *)
(***************************************************************************)
\* the extraction request settles in the step
ExtractionSettles == pc = "extractionCall" /\ pc' = "matchDone"

\* C22: when the extraction request fails with an error that is not an
\* OllamaConnectionError, findMatchingSection returns null; whatever it
\* throws is an OllamaConnectionError; and on null the handler adds no record
\* and goes on with the next section, or with the next pair or the end of
\* the run after the last section, without showing an error for it.
C22_ExtractionErrorGivesNull ==
    /\ [][(/\ ExtractionSettles
           /\ lastCall'.completion.kind = "throw"
           /\ ~ConnectionFailed(lastCall'.completion))
             => result' = Return(Null)]_vars
    /\ []((pc = "matchDone" /\ result.kind = "throw")
             => IsOllamaConnectionError(result.error))
    /\ [][(pc = "matchDone" /\ result = Return(Null))
             => IF sectionIndex < Len(rfpSections)
                THEN /\ allFinalChunks' = allFinalChunks
                     /\ sectionIndex' = sectionIndex + 1
                     /\ index' = index
                     /\ pc' \in {"relevanceCall", "matchDone"}
                     /\ error' = Null
                ELSE IF index < Len(completedPairs)
                THEN /\ allFinalChunks' = allFinalChunks
                     /\ index' = index + 1
                     /\ pc' = "readRfp"
                     /\ error' = Null
                ELSE /\ pc' = "idle"
                     /\ allFinalChunks # <<>>
                           => /\ generatedEntries' = Len(allFinalChunks)
                              /\ error' = Null]_vars

\* the extraction request of the first section failed with an error that is
\* not a connection error, and the second section is being matched
C22_NextSectionAfterError ==
    /\ pc = "relevanceCall"
    /\ sectionIndex = 2
    /\ matchIndex = 1
    /\ lastCall.kind = "settled"
    /\ lastCall.request.prompt.ask = "extraction"
    /\ lastCall.completion.kind = "throw"
    /\ allFinalChunks = <<>>

(***************************************************************************)
(* C23: a run ends.  Every file read and every request settles, and the    *)
(* handler resumes when the promise it awaits has settled.                 *)
(***************************************************************************)
\* the read of the proposal is rejected.  A rejection is possible whenever
\* the read is pending and every settlement ends the pending read, so the
\* weak fairness of this step says that a pending read settles, one way or
\* the other.
proposalReadRejected ==
    \E settled \in {Throw(ReaderErrorEvent), Throw(Err("TypeError", <<>>))} :
        proposalRead(settled)

\* a step of a run: a read or a request settles, or the handler resumes
RunStep ==
    \/ /\ pc = "readRfp"
       /\ \E settled \in SeqsUpTo({readerOnLoad(f) : f \in Files} \cup {Throw(ReaderErrorEvent)},
                                MaxRfpFiles) : rfpFilesRead(settled)
    \/ (pc = "readProposal" /\ proposalReadRejected)
    \/ (pc = "extractCall" /\ \E outcome \in Outcomes(SectionResponses) : extractSectionsStep(outcome))
    \/ afterExtract
    \/ (pc = "relevanceCall" /\ \E outcome \in Outcomes(RelevanceResponses) : relevanceStep(outcome))
    \/ (pc = "extractionCall" /\ \E outcome \in Outcomes(ExtractionResponses) : extractionStep(outcome))
    \/ afterMatch

FairSpec == Spec /\ WF_vars(RunStep)

\* where the run is: the pair, the stage of the pair, the page or the section
\* of the stage, the phase of the section and the page of the phase
Stage ==
    CASE pc = "readRfp" -> 1
      [] pc = "readProposal" -> 2
      [] pc = "extractCall" -> 3
      [] pc = "extractDone" -> 4
      [] OTHER -> 5

Position ==
    << index,
       Stage,
       IF Stage = 3 THEN pageIndex ELSE IF Stage = 5 THEN sectionIndex ELSE 0,
       CASE pc = "relevanceCall" -> 1
         [] pc = "extractionCall" -> 2
         [] pc = "matchDone" -> 3
         [] OTHER -> 0,
       IF pc = "relevanceCall" THEN matchIndex ELSE 0 >>

\* s comes before t in the order of the loops
Before(s, t) ==
    \E k \in 1..Len(s) : s[k] < t[k] /\ \A j \in 1..(k - 1) : s[j] = t[j]

\* (RFP pages) + (sections) x (proposal pages + 1), summed over the pairs
\* whose sections were extracted, the first n of the log
RECURSIVE CallBound(_)
CallBound(n) ==
    IF n = 0 THEN 0
    ELSE CallBound(n - 1)
           + extractLog[n].rfpPages
           + Len(extractLog[n].sections) * (extractLog[n].proposalPages + 1)

\* the same sum with the RFP pages of the pair whose sections are being
\* extracted
RunBound ==
    CallBound(Len(extractLog)) + (IF pc \in {"extractCall", "extractDone"} THEN Len(rfpPages) ELSE 0)

\* the run ends in the step
RunEnds == pc # "idle" /\ pc' = "idle"

\* the handler is about to catch an error
Thrown == ReadingFiles \/ (CalleeSettled /\ result.kind = "throw")

\* C23: with every read and request settling, a started run ends; it ends
\* with the dataset of one record or more, or with the report that no
\* section was extracted, or with a thrown connection or file error, and
\* with one of the three only; while it runs, every step moves forward in
\* the order pair, page, section (never back to an earlier one); and the
\* requests of the run are at most, summed over the complete pairs, (RFP
\* pages) + (sections) x (proposal pages + 1).
C23_RunTerminates ==
    /\ (isLoading ~> ~isLoading)
    /\ [][RunEnds
             => \/ /\ ~Thrown
                   /\ step' = Download /\ error' = Null
                   /\ generatedEntries' >= 1 /\ blob'.some
                \/ /\ ~Thrown
                   /\ step' = Upload /\ error' = Some(NoValidSectionsMessage)
                   /\ blob' = Null
                \/ /\ Thrown
                   /\ CalleeSettled => IsOllamaConnectionError(result.error)
                   /\ step' = Upload /\ error'.some
                   /\ blob' = Null]_vars
    /\ [][(pc # "idle" /\ pc' # "idle") => Before(Position, Position')]_vars
    /\ []((pc # "idle" \/ step = Download)
             => /\ calls.run <= RunBound
                /\ Len(extractLog) <= Len(completedPairs)
                /\ \A j, k \in 1..Len(extractLog) : extractLog[j].pair = extractLog[k].pair => j = k)
    /\ [](pc # "idle" => calls.extract <= Len(rfpPages) /\ calls.match <= Len(proposalPages) + 1)

\* a run over two pairs has ended with as many requests as the bound allows
C23_BoundReached ==
    /\ step = Download
    /\ Len(completedPairs) = 2
    /\ Len(extractLog) = 2
    /\ calls.run = CallBound(2)
    /\ calls.run >= 6

(***************************************************************************)
(* C24: no partial dataset.                                                *)
(***************************************************************************)
\* C24: when the handler catches an error, whatever records the run has
\* accumulated, the run ends without a dataset: no Blob and no download URL
\* are made, nothing is downloaded, the entry count stays 0 and the step
\* stays Upload; only the error is shown.
C24_NoPartialDataset ==
    [][(Thrown /\ RunEnds)
          => /\ blob' = Null
             /\ downloadUrl' = Null
             /\ downloads' = 0
             /\ generatedEntries' = 0
             /\ step' = Upload
             /\ error'.some]_vars

\* a request of the second pair has failed with a connection error after
\* the first pair gave a record
C24_ErrorAfterRecords ==
    /\ CalleeSettled
    /\ result.kind = "throw"
    /\ index = 2
    /\ allFinalChunks # <<>>

(***************************************************************************)
(* C25: the Download step.                                                 *)
(***************************************************************************)
\* C25: at the Download step no run is going on and no error is shown, the
\* dataset exists with one line or more, the entry count is the number of
\* its lines and of the records of the run that made it, and the download
\* URL is set; the step becomes Download only in the step that ends a run
\* after its last pair without a thrown error; and it leaves Download only
\* for Upload, with the error, the entry count and the download URL cleared
\* and the document pairs replaced by one empty pair.
C25_DownloadMeansDataset ==
    /\ [](step = Download
             => /\ pc = "idle" /\ ~isLoading
                /\ error = Null
                /\ blob.some /\ Len(blob.val) >= 1
                /\ generatedEntries = Len(blob.val)
                /\ generatedEntries = Len(RecordsOfRun)
                /\ downloadUrl.some)
    /\ [][(step # Download /\ step' = Download)
             => RunEnds /\ LastPairDone /\ ~Thrown]_vars
    /\ [][(step = Download /\ step' # Download)
             => /\ step' = Upload
                /\ error' = Null
                /\ generatedEntries' = 0
                /\ downloadUrl' = Null
                /\ Len(documentPairs') = 1
                /\ documentPairs'[1].rfp = <<>>
                /\ documentPairs'[1].proposal = Null]_vars

\* the dataset of a run has two lines and has been downloaded again
C25_TwoLinesDownloadedAgain ==
    /\ step = Download
    /\ generatedEntries = 2
    /\ downloads = 2

====
